---------------------------- MODULE Spec2Model ----------------------------
(***************************************************************************)
(* Quiz-Application: the Question / Quiz model (models/quiz.model.js) and  *)
(* the QuizService (backend/services/quiz.service.js) as a state machine.  *)
(*                                                                         *)
(* Ids (uuidv4) are naturals handed out by the counter nextId; 0 stands    *)
(* for a falsy id value ("" / null / undefined).  Timestamps are readings  *)
(* of the clock `now`.                                                     *)
(***************************************************************************)
EXTENDS Integers, Sequences, FiniteSets, TLC

VARIABLES
    quizzes,    \* QuizService.quizzes: the Map, as the sequence of its values in insertion order
    nextId,     \* the next value uuidv4() returns
    now,        \* the clock new Date() reads
    question,   \* a Question instance used directly (as the model tests do)
    input,      \* the argument the caller has prepared for its next call
    last        \* the last call: its name, argument, outcome and returned value

vars == <<quizzes, nextId, now, question, input, last>>

(***************************************************************************)
(* Bounds of the model.                                                    *)
(***************************************************************************)
MaxOpts == 3        \* options added to the directly used Question
MaxSel == 3         \* length of a selection array handed to isAnswerCorrect

(***************************************************************************)
(* Sequence helpers (the Array methods the code uses)                      *)
(***************************************************************************)
Range(s) == {s[i] : i \in 1..Len(s)}

includes(s, x) == \E i \in 1..Len(s) : s[i] = x

SeqsUpTo(S, n) == UNION {[1..k -> S] : k \in 0..n}

\* [...new Set(s)]: the distinct elements in order of first occurrence
RECURSIVE SetOrder(_)
SetOrder(s) ==
    IF s = <<>> THEN <<>>
    ELSE LET front == SetOrder(SubSeq(s, 1, Len(s) - 1))
             x == s[Len(s)]
         IN IF includes(front, x) THEN front ELSE Append(front, x)

(***************************************************************************)
(* Strings.  A string is `pre` whitespace characters, then `core`          *)
(* non-whitespace characters spelling `word` (in upper or lower case),     *)
(* then `post` whitespace characters.  isString = FALSE is a value that is *)
(* no string: undefined/null when truthy = FALSE, a number/object when     *)
(* truthy = TRUE.                                                          *)
(***************************************************************************)
Str(word, upper, pre, core, post) ==
    [isString |-> TRUE, word |-> word, upper |-> upper,
     pre |-> pre, core |-> core, post |-> post]

Undefined == [isString |-> FALSE, word |-> "undefined", upper |-> FALSE,
              pre |-> 0, core |-> 0, post |-> 0]
NotAString == [isString |-> FALSE, word |-> "number", upper |-> FALSE,
               pre |-> 0, core |-> 1, post |-> 0]

length(s) == s.pre + s.core + s.post

trim(s) == [s EXCEPT !.pre = 0, !.post = 0]

toLowerCase(s) == [s EXCEPT !.upper = FALSE]

\* JavaScript truthiness of a text value
truthy(s) == IF s.isString THEN length(s) > 0 ELSE s.core > 0

(***************************************************************************)
(* Question model                                                          *)
(***************************************************************************)
\* A thrown Error: its message and the index / ids the message names
Error(msg) == [msg |-> msg, at |-> 0, on |-> 0]
ErrorAt(msg, at) == [msg |-> msg, at |-> at, on |-> 0]
ErrorOn(msg, at, on) == [msg |-> msg, at |-> at, on |-> on]

NoError == Error("none")

\* new Question(text, type): id from uuidv4(), createdAt from the clock
NewQuestion(text, type, id, time) ==
    [id |-> id, text |-> trim(text), type |-> type, options |-> <<>>,
     createdAt |-> time]

\* Question.addOption: the error it throws, or NoError
addOptionError(text) ==
    IF ~truthy(text) \/ ~text.isString
        THEN Error("Option text must be a non-empty string")
    ELSE IF length(trim(text)) = 0
        THEN Error("Option text cannot be empty after trimming")
    ELSE NoError

\* Question.addOption: the question after the push
addOption(q, text, isCorrect, id) ==
    [q EXCEPT !.options =
        Append(@, [id |-> id, text |-> trim(text), isCorrect |-> isCorrect])]

getCorrectOptionIds(q) ==
    LET correct == SelectSeq(q.options, LAMBDA o : o.isCorrect)
    IN [i \in 1..Len(correct) |-> correct[i].id]

\* selectedOptionIds.filter(id => id) without the Set: duplicates kept
filterOnly(items) == SelectSeq(items, LAMBDA id : id # 0)

\* [...new Set(selectedOptionIds.filter(id => id))]
uniqueSelected(items) == SetOrder(SelectSeq(items, LAMBDA id : id # 0))

singleAnyCorrect(selected, correct) == includes(correct, selected[1])

validateSingleChoice(selected, correct) ==
    IF Len(selected) # 1 THEN FALSE
    ELSE includes(correct, selected[1])

multipleSubsetOnly(selected, correct) ==
    \A i \in 1..Len(selected) : includes(correct, selected[i])

validateMultipleChoice(selected, correct) ==
    IF Len(selected) # Len(correct) THEN FALSE
    ELSE LET allSelectedCorrect ==
                 \A i \in 1..Len(selected) : includes(correct, selected[i])
             allCorrectSelected ==
                 \A i \in 1..Len(correct) : includes(selected, correct[i])
         IN allSelectedCorrect /\ allCorrectSelected

textEveryCorrect(selected, correct) ==
    \A i \in 1..Len(selected) : includes(correct, selected[i])

validateTextChoice(selected, correct) ==
    \E i \in 1..Len(selected) : includes(correct, selected[i])

\* isAnswerCorrect without the allOptionsExist check
isAnswerCorrectNoExistence(q, sel) ==
    IF ~sel.isArray THEN FALSE
    ELSE LET selected == uniqueSelected(sel.items)
             correctIds == getCorrectOptionIds(q)
         IN IF Len(correctIds) = 0 THEN FALSE
            ELSE IF Len(selected) = 0 THEN FALSE
            ELSE CASE q.type = "single_choice" ->
                          validateSingleChoice(selected, correctIds)
                   [] q.type = "multiple_choice" ->
                          validateMultipleChoice(selected, correctIds)
                   [] q.type = "text" ->
                          validateTextChoice(selected, correctIds)
                   [] OTHER -> FALSE

\* Question.isAnswerCorrect; sel is [isArray, items]
isAnswerCorrect(q, sel) ==
    IF ~sel.isArray THEN FALSE
    ELSE LET selected == uniqueSelected(sel.items)
             correctIds == getCorrectOptionIds(q)
             allOptionsExist ==
                 \A i \in 1..Len(selected) :
                     \E j \in 1..Len(q.options) : q.options[j].id = selected[i]
         IN IF Len(correctIds) = 0 THEN FALSE
            ELSE IF Len(selected) = 0 THEN FALSE
            ELSE IF ~allOptionsExist THEN FALSE
            ELSE CASE q.type = "single_choice" ->
                          validateSingleChoice(selected, correctIds)
                   [] q.type = "multiple_choice" ->
                          validateMultipleChoice(selected, correctIds)
                   [] q.type = "text" ->
                          validateTextChoice(selected, correctIds)
                   [] OTHER -> FALSE

TextLimit == 300

\* validateByType without the checks on incorrect options and option count
\* of a multiple_choice question
validateByTypeCorrectOnly(q, correctOptions) ==
    CASE q.type = "single_choice" ->
             IF Len(correctOptions) # 1
                 THEN Error("Single choice questions can only have one correct answer")
             ELSE IF Len(q.options) < 2
                 THEN Error("Single choice questions must have at least 2 options")
             ELSE NoError
      [] q.type = "multiple_choice" ->
             IF Len(correctOptions) < 2
                 THEN Error("Multiple choice questions must have at least 2 correct answers")
             ELSE NoError
      [] q.type = "text" ->
             IF length(q.text) > TextLimit
                 THEN Error("Text-based question cannot exceed 300 characters")
             ELSE NoError
      [] OTHER -> Error("Invalid question type")

\* Question.validateByType: the error it throws, or NoError
validateByType(q, correctOptions) ==
    CASE q.type = "single_choice" ->
             IF Len(correctOptions) # 1
                 THEN Error("Single choice questions can only have one correct answer")
             ELSE IF Len(q.options) < 2
                 THEN Error("Single choice questions must have at least 2 options")
             ELSE NoError
      [] q.type = "multiple_choice" ->
             IF Len(correctOptions) < 2
                 THEN Error("Multiple choice questions must have at least 2 correct answers")
             ELSE IF Len(correctOptions) = Len(q.options)
                 THEN Error("Multiple choice questions must have at least one incorrect option")
             ELSE IF Len(q.options) < 3
                 THEN Error("Multiple choice questions must have at least 3 options")
             ELSE NoError
      [] q.type = "text" ->
             IF length(q.text) > TextLimit
                 THEN Error("Text-based question cannot exceed 300 characters")
             ELSE NoError
      [] OTHER -> Error("Invalid question type")

\* Question.validate: the error it throws, or NoError
validate(q) ==
    LET correctOptions == SelectSeq(q.options, LAMBDA o : o.isCorrect)
    IN IF ~truthy(q.text) \/ length(trim(q.text)) = 0
           THEN Error("Question text cannot be empty")
       ELSE IF Len(q.options) = 0
           THEN Error("At least one option is required")
       ELSE IF Len(correctOptions) = 0
           THEN Error("At least one correct answer is required")
       ELSE validateByType(q, correctOptions)


(***************************************************************************)
(* Numbers.  A JavaScript number is an IEEE-754 double: here a sequence of *)
(* at most Precision binary digits (most significant first, no leading     *)
(* zero) and the exponent of its last digit; <<>> is zero.  Division and   *)
(* multiplication round to nearest, ties to even, as the language does.    *)
(***************************************************************************)
Precision == 53

LimbBits == 18      \* digits of one limb of the multiplication below

\* n on w binary digits
NatBits(n, w) == [i \in 1..w |-> (n \div 2^(w - i)) % 2]

\* the natural a digit sequence (shorter than 31 digits) spells
RECURSIVE BitsNat(_)
BitsNat(bits) ==
    IF Len(bits) = 0 THEN 0
    ELSE IF Len(bits) = 1 THEN bits[1]
    ELSE LET h == Len(bits) \div 2
         IN BitsNat(SubSeq(bits, 1, h)) * 2^(Len(bits) - h)
              + BitsNat(SubSeq(bits, h + 1, Len(bits)))

stripZeros(bits) ==
    LET ones == {i \in 1..Len(bits) : bits[i] = 1}
    IN IF ones = {} THEN <<>>
       ELSE SubSeq(bits, CHOOSE i \in ones : \A j \in ones : i <= j, Len(bits))

\* 2^i modulo t
RECURSIVE pow2mod(_, _)
pow2mod(i, t) ==
    IF i <= LimbBits THEN (2^i) % t
    ELSE (pow2mod(i - LimbBits, t) * ((2^LimbBits) % t)) % t

\* what is left of r / t below its first n binary digits, for 0 <= r < t
remainderAfter(r, t, n) == (r * pow2mod(n, t)) % t

\* the first n binary digits of r / t after the point, for 0 <= r < t
fractionBits(r, t, n) ==
    [i \in 1..n |-> IF 2 * remainderAfter(r, t, i - 1) >= t THEN 1 ELSE 0]

\* bits + 1 on the same number of digits (all ones wrap to all zeros)
increment(bits) ==
    LET zeros == {i \in 1..Len(bits) : bits[i] = 0}
        k == IF zeros = {} THEN 0 ELSE CHOOSE i \in zeros : \A j \in zeros : j <= i
    IN [i \in 1..Len(bits) |-> IF i < k THEN bits[i] ELSE IF i = k THEN 1 ELSE 0]

\* the double nearest to digits * 2^exp (+ something below the last digit
\* when sticky), ties to even
roundToDouble(digits, exp, sticky) ==
    LET bits == stripZeros(digits)
        n == Len(bits)
    IN IF n <= Precision THEN [bits |-> bits, exp |-> exp]
       ELSE LET keep == SubSeq(bits, 1, Precision)
                guard == bits[Precision + 1]
                below == sticky \/ \E i \in (Precision + 2)..n : bits[i] = 1
                roundUp == guard = 1 /\ (below \/ keep[Precision] = 1)
                up == increment(keep)
            IN IF ~roundUp THEN [bits |-> keep, exp |-> exp + (n - Precision)]
               ELSE IF up[1] = 1 THEN [bits |-> up, exp |-> exp + (n - Precision)]
               ELSE [bits |-> <<1>> \o SubSeq(up, 2, Precision),
                     exp |-> exp + (n - Precision) + 1]

\* a / b for naturals a, b with b > 0 (both below 2^15)
divide(a, b) ==
    LET n == Precision + 1 + LimbBits
    IN roundToDouble(NatBits(a \div b, LimbBits) \o fractionBits(a % b, b, n),
                     0 - n, remainderAfter(a % b, b, n) # 0)

\* digits * k exactly, for at most 3 * LimbBits digits and k < 2^12
mulExact(digits, k) ==
    LET bits == [i \in 1..(3 * LimbBits - Len(digits)) |-> 0] \o digits
        limb(j) == BitsNat(SubSeq(bits, (j - 1) * LimbBits + 1, j * LimbBits))
        p3 == limb(3) * k
        p2 == limb(2) * k + p3 \div 2^LimbBits
        p1 == limb(1) * k + p2 \div 2^LimbBits
    IN NatBits(p1, 30) \o NatBits(p2 % 2^LimbBits, LimbBits)
                       \o NatBits(p3 % 2^LimbBits, LimbBits)

\* x * k for a double x and a natural k < 2^12
multiply(x, k) == roundToDouble(mulExact(x.bits, k), x.exp, FALSE)

\* Math.round(x) for a double x >= 0: the nearest integer, halves upward
MathRound(x) ==
    LET whole == Len(x.bits) + x.exp      \* digits before the point
    IN IF x.exp >= 0 THEN BitsNat(x.bits \o [i \in 1..x.exp |-> 0])
       ELSE (IF whole <= 0 THEN 0 ELSE BitsNat(SubSeq(x.bits, 1, whole)))
            + (IF whole >= 0 THEN x.bits[whole + 1] ELSE 0)

(***************************************************************************)
(* The record of the last call                                             *)
(***************************************************************************)
Call(op, arg, error, value) ==
    [op |-> op, arg |-> arg, ok |-> (error = NoError), error |-> error,
     value |-> value]

NoCall == Call("none", <<>>, NoError, <<>>)

NoQuestion == [id |-> 0, text |-> Str("", FALSE, 0, 0, 0), type |-> "none",
               options |-> <<>>, createdAt |-> 0]

QuestionTypes == {"single_choice", "multiple_choice", "text"}

(***************************************************************************)
(* A Question used directly: new Question(...), addOption, validate,       *)
(* isAnswerCorrect, in any order (backend/tests, 'Question Model').  The   *)
(* caller builds the selection array one entry at a time.                  *)
(***************************************************************************)
QuestionText == Str("test", FALSE, 0, 4, 0)

OptionTexts == {Str("a", FALSE, 1, 1, 1), Str("", FALSE, 2, 0, 0), Undefined}

NoSelection == [isArray |-> TRUE, items |-> <<>>]
NotAnArray == [isArray |-> FALSE, items |-> <<>>]

InitQuestion ==
    /\ quizzes = <<>>
    /\ now = 0
    /\ \E type \in QuestionTypes \cup {"essay"} :
           question = NewQuestion(QuestionText, type, 1, 0)
    /\ nextId = 2
    /\ input = NoSelection
    /\ last = NoCall

\* question.addOption(text, isCorrect)
QAddOption(text, isCorrect) ==
    /\ Len(question.options) < MaxOpts
    /\ IF addOptionError(text) # NoError
           THEN /\ last' = Call("addOption", <<>>, addOptionError(text), <<>>)
                /\ UNCHANGED <<question, nextId>>
           ELSE /\ question' = addOption(question, text, isCorrect, nextId)
                /\ nextId' = nextId + 1
                /\ last' = Call("addOption", <<>>, NoError, nextId)
    /\ UNCHANGED <<quizzes, now, input>>

\* the caller puts one more entry into the array it will pass: an option id,
\* the empty id 0, or an id that is no option (the question's own id)
QSelect(id) ==
    /\ input.isArray
    /\ Len(input.items) < MaxSel
    /\ input' = [input EXCEPT !.items = Append(@, id)]
    /\ last' = NoCall
    /\ UNCHANGED <<quizzes, nextId, now, question>>

\* the caller passes something that is no array (a string, null, undefined)
QSelectNonArray ==
    /\ input = NoSelection
    /\ input' = NotAnArray
    /\ last' = NoCall
    /\ UNCHANGED <<quizzes, nextId, now, question>>

\* question.isAnswerCorrect(selectedOptionIds)
QIsAnswerCorrect ==
    /\ last' = Call("isAnswerCorrect", <<>>, NoError, isAnswerCorrect(question, input))
    /\ UNCHANGED <<quizzes, nextId, now, question, input>>

\* question.validate()
QValidate ==
    /\ last' = Call("validate", <<>>, validate(question), <<>>)
    /\ UNCHANGED <<quizzes, nextId, now, question, input>>

NextQuestion ==
    \/ \E text \in OptionTexts, isCorrect \in BOOLEAN : QAddOption(text, isCorrect)
    \/ \E id \in {question.options[i].id : i \in 1..Len(question.options)}
                    \cup {0, question.id} : QSelect(id)
    \/ QSelectNonArray
    \/ QIsAnswerCorrect
    \/ QValidate

QuestionSpec == InitQuestion /\ [][NextQuestion]_vars

(***************************************************************************)
(* Answer correctness (claims C1 - C5)                                     *)
(***************************************************************************)
OptionIds(q) == {q.options[i].id : i \in 1..Len(q.options)}

CorrectSet(q) == {q.options[i].id : i \in {j \in 1..Len(q.options) : q.options[j].isCorrect}}

\* the distinct non-empty ids of a input
Chosen(sel) == {id \in Range(sel.items) : id # 0}

Evaluated == last.op = "isAnswerCorrect" /\ input.isArray

\* C1: on a validated single_choice question isAnswerCorrect is true exactly
\* when the distinct non-empty selected ids are the one correct id alone.
C1_SingleChoiceExact ==
    (Evaluated /\ question.type = "single_choice" /\ validate(question) = NoError)
        => (last.value <=> Chosen(input) = CorrectSet(question))

C1_Witness ==
    /\ Evaluated /\ question.type = "single_choice" /\ validate(question) = NoError
    /\ last.value = TRUE
    /\ Len(input.items) > 1

\* C2: on a validated multiple_choice question isAnswerCorrect is true exactly
\* when the set of selected ids equals the set of correct ids.
C2_MultipleChoiceExact ==
    (Evaluated /\ question.type = "multiple_choice" /\ validate(question) = NoError)
        => (last.value <=> Chosen(input) = CorrectSet(question))

C2_Witness ==
    /\ Evaluated /\ question.type = "multiple_choice" /\ validate(question) = NoError
    /\ last.value = TRUE
    /\ Cardinality(Chosen(input)) = 2

\* C3: on a text question with a correct option, a input of existing
\* option ids is judged correct exactly when it holds a correct id.
C3_TextAnyCorrect ==
    (/\ Evaluated /\ question.type = "text" /\ CorrectSet(question) # {}
     /\ Range(input.items) \subseteq OptionIds(question))
        => (last.value <=> (Range(input.items) \cap CorrectSet(question) # {}))

C3_Witness ==
    /\ Evaluated /\ question.type = "text"
    /\ Range(input.items) \subseteq OptionIds(question)
    /\ Range(input.items) \cap CorrectSet(question) # {}
    /\ Range(input.items) \ CorrectSet(question) # {}
    /\ last.value = TRUE

RepeatsOneCorrect ==
    /\ Evaluated /\ question.type = "single_choice"
    /\ Len(input.items) >= 2
    /\ \E a \in CorrectSet(question) : Range(input.items) = {a}

GradeA == 90
GradeB == 80
GradeC == 70
GradeD == 60
PassMark == 60

\* QuizService.calculateGrade
calculateGrade(percentage) ==
    IF percentage >= GradeA THEN "A"
    ELSE IF percentage >= GradeB THEN "B"
    ELSE IF percentage >= GradeC THEN "C"
    ELSE IF percentage >= GradeD THEN "D"
    ELSE "F"

\* calculateStatistics with total taken from the results
statisticsTotalAnswered(results, totalQuestions) ==
    LET correctCount == Len(SelectSeq(results, LAMBDA r : r.isCorrect))
        percentage == IF Len(results) > 0
                          THEN MathRound(multiply(divide(correctCount, Len(results)), 100))
                          ELSE 0
    IN [score |-> correctCount,
        total |-> Len(results),
        percentage |-> percentage,
        answeredCount |-> Len(results),
        unansweredCount |-> totalQuestions - Len(results),
        passed |-> percentage >= PassMark,
        grade |-> calculateGrade(percentage)]

\* calculateStatistics with the operands of unansweredCount swapped
statisticsUnansweredSwapped(results, totalQuestions) ==
    LET correctCount == Len(SelectSeq(results, LAMBDA r : r.isCorrect))
        percentage == IF totalQuestions > 0
                          THEN MathRound(multiply(divide(correctCount, totalQuestions), 100))
                          ELSE 0
    IN [score |-> correctCount,
        total |-> totalQuestions,
        percentage |-> percentage,
        answeredCount |-> Len(results),
        unansweredCount |-> Len(results) - totalQuestions,
        passed |-> percentage >= PassMark,
        grade |-> calculateGrade(percentage)]

\* calculateStatistics counting correct results up to the first incorrect one
statisticsLeadingCorrect(results, totalQuestions) ==
    LET wrong == {i \in 1..Len(results) : ~results[i].isCorrect}
        correctCount == IF wrong = {} THEN Len(results)
                        ELSE (CHOOSE i \in wrong : \A j \in wrong : i <= j) - 1
        percentage == IF totalQuestions > 0
                          THEN MathRound(multiply(divide(correctCount, totalQuestions), 100))
                          ELSE 0
    IN [score |-> correctCount,
        total |-> totalQuestions,
        percentage |-> percentage,
        answeredCount |-> Len(results),
        unansweredCount |-> totalQuestions - Len(results),
        passed |-> percentage >= PassMark,
        grade |-> calculateGrade(percentage)]

\* QuizService.calculateStatistics
calculateStatistics(results, totalQuestions) ==
    LET correctCount == Len(SelectSeq(results, LAMBDA r : r.isCorrect))
        percentage == IF totalQuestions > 0
                          THEN MathRound(multiply(divide(correctCount, totalQuestions), 100))
                          ELSE 0
    IN [score |-> correctCount,
        total |-> totalQuestions,
        percentage |-> percentage,
        answeredCount |-> Len(results),
        unansweredCount |-> totalQuestions - Len(results),
        passed |-> percentage >= PassMark,
        grade |-> calculateGrade(percentage)]

(***************************************************************************)
(* Quiz model                                                              *)
(***************************************************************************)
\* new Quiz(title): id from uuidv4(), both timestamps from the clock
NewQuiz(title, id, time) ==
    [id |-> id, title |-> trim(title), questions |-> <<>>,
     createdAt |-> time, updatedAt |-> time]

\* Quiz.addQuestion
quizAddQuestion(quiz, q, time) ==
    [quiz EXCEPT !.questions = Append(@, q), !.updatedAt = time]

\* Quiz.findQuestionById: the first question with that id, NoQuestion for null
findQuestionById(quiz, questionId) ==
    LET hits == {i \in 1..Len(quiz.questions) : quiz.questions[i].id = questionId}
    IN IF hits = {} THEN NoQuestion
       ELSE quiz.questions[CHOOSE i \in hits : \A j \in hits : i <= j]

(***************************************************************************)
(* QuizService.quizzes: a Map from quiz id to Quiz, iterated in insertion  *)
(* order                                                                   *)
(***************************************************************************)
MapHas(qs, id) == \E i \in 1..Len(qs) : qs[i].id = id

MapGet(qs, id) == qs[CHOOSE i \in 1..Len(qs) : qs[i].id = id]

MapSet(qs, quiz) ==
    IF MapHas(qs, quiz.id)
        THEN [i \in 1..Len(qs) |-> IF qs[i].id = quiz.id THEN quiz ELSE qs[i]]
        ELSE Append(qs, quiz)

MapDelete(qs, id) == SelectSeq(qs, LAMBDA z : z.id # id)

(***************************************************************************)
(* QuizService.  A quiz id argument is a natural (a string id), 0 (a falsy *)
(* value) or -1 (a value that is no string).  Each operation is given as   *)
(* the Error it throws (NoError when it returns) and what it then does.    *)
(***************************************************************************)
TitleMin == 3
TitleMax == 200
QuestionTextMax == 1000
OptionTextMax == 500
OptionsMax == 10

\* createQuiz without the minimum-length check
createQuizErrorNoMinimum(title) ==
    IF ~title.isString /\ ~truthy(title) THEN Error("Quiz title is required")
    ELSE IF ~title.isString THEN Error("Quiz title must be a string")
    ELSE IF length(trim(title)) = 0 THEN Error("Quiz title is required")
    ELSE IF length(trim(title)) > TitleMax
        THEN Error("Quiz title cannot exceed 200 characters")
    ELSE NoError

\* QuizService.createQuiz: the error thrown
createQuizError(title) ==
    IF ~title.isString /\ ~truthy(title) THEN Error("Quiz title is required")
    ELSE IF ~title.isString THEN Error("Quiz title must be a string")
    ELSE IF length(trim(title)) = 0 THEN Error("Quiz title is required")
    ELSE IF length(trim(title)) < TitleMin
        THEN Error("Quiz title must be at least 3 characters long")
    ELSE IF length(trim(title)) > TitleMax
        THEN Error("Quiz title cannot exceed 200 characters")
    ELSE NoError

\* validateQuizId accepting every value
validateQuizIdAnyValue(quizId) == NoError

\* QuizService.validateQuizId
validateQuizId(quizId) ==
    IF quizId = 0 THEN Error("Quiz ID is required")
    ELSE IF quizId < 0 THEN Error("Quiz ID must be a string")
    ELSE NoError

\* QuizService.getQuiz: the error thrown
getQuizError(qs, quizId) ==
    IF validateQuizId(quizId) # NoError THEN validateQuizId(quizId)
    ELSE IF ~MapHas(qs, quizId) THEN Error("Quiz not found")
    ELSE NoError

\* QuizService.validateQuestionData
validateQuestionData(data) ==
    IF ~data.isObject THEN Error("Question data is required")
    ELSE IF ~truthy(data.text) \/ ~data.text.isString
        THEN Error("Question text is required and must be a string")
    ELSE IF length(trim(data.text)) = 0 THEN Error("Question text cannot be empty")
    ELSE IF data.type = "text" /\ length(trim(data.text)) > TextLimit
        THEN Error("Text-based question cannot exceed 300 characters")
    ELSE IF length(trim(data.text)) > QuestionTextMax
        THEN Error("Question text cannot exceed 1000 characters")
    ELSE IF data.type = "" THEN Error("Question type is required")
    ELSE IF data.type \notin QuestionTypes THEN Error("Invalid question type")
    ELSE NoError

\* the forEach body without the Set of texts seen so far
optionErrorNoDuplicates(options, i) ==
    LET optionData == options[i]
        trimmedText == trim(optionData.text)
    IN IF ~optionData.isObject THEN ErrorAt("Option must be an object", i)
       ELSE IF ~truthy(optionData.text) \/ ~optionData.text.isString
           THEN ErrorAt("Option must have text", i)
       ELSE IF length(trimmedText) = 0 THEN ErrorAt("Option text cannot be empty", i)
       ELSE IF length(trimmedText) > OptionTextMax
           THEN ErrorAt("Option text cannot exceed 500 characters", i)
       ELSE IF optionData.isCorrect \notin {"undefined", "true", "false"}
           THEN ErrorAt("Option isCorrect must be a boolean", i)
       ELSE addOptionError(trimmedText)

\* the body of the forEach of addOptionsToQuestion for options[i], all
\* options before it having passed
optionError(options, i) ==
    LET optionData == options[i]
        trimmedText == trim(optionData.text)
        optionTexts == {toLowerCase(trim(options[j].text)) : j \in 1..(i - 1)}
    IN IF ~optionData.isObject THEN ErrorAt("Option must be an object", i)
       ELSE IF ~truthy(optionData.text) \/ ~optionData.text.isString
           THEN ErrorAt("Option must have text", i)
       ELSE IF length(trimmedText) = 0 THEN ErrorAt("Option text cannot be empty", i)
       ELSE IF length(trimmedText) > OptionTextMax
           THEN ErrorAt("Option text cannot exceed 500 characters", i)
       ELSE IF toLowerCase(trimmedText) \in optionTexts
           THEN ErrorAt("Duplicate option text found", i)
       ELSE IF optionData.isCorrect \notin {"undefined", "true", "false"}
           THEN ErrorAt("Option isCorrect must be a boolean", i)
       ELSE addOptionError(trimmedText)

\* QuizService.addOptionsToQuestion: the error thrown
addOptionsError(options) ==
    IF ~options.isArray THEN Error("Options must be an array")
    ELSE IF Len(options.items) = 0 THEN Error("At least one option is required")
    ELSE IF Len(options.items) > OptionsMax
        THEN Error("Question cannot have more than 10 options")
    ELSE LET bad == {i \in 1..Len(options.items) :
                        optionError(options.items, i) # NoError}
         IN IF bad = {} THEN NoError
            ELSE optionError(options.items, CHOOSE i \in bad : \A j \in bad : i <= j)

\* QuizService.addOptionsToQuestion: the question with every option added,
\* option i taking the id firstId + i - 1
addOptionsToQuestion(q, options, firstId) ==
    [q EXCEPT !.options =
        [i \in 1..Len(options.items) |->
            [id |-> firstId + i - 1,
             text |-> trim(options.items[i].text),
             isCorrect |-> (options.items[i].isCorrect = "true")]]]

\* the Question addQuestion builds from questionData
builtQuestion(data, id, time) ==
    addOptionsToQuestion(NewQuestion(trim(data.text), data.type, id, time),
                         data.options, id + 1)

\* addQuestion validating the payload before it looks the quiz up
addQuestionErrorPayloadFirst(qs, quizId, data) ==
    IF validateQuestionData(data) # NoError THEN validateQuestionData(data)
    ELSE IF getQuizError(qs, quizId) # NoError THEN getQuizError(qs, quizId)
    ELSE IF addOptionsError(data.options) # NoError THEN addOptionsError(data.options)
    ELSE validate(builtQuestion(data, 0, 0))

\* QuizService.addQuestion: the error thrown
addQuestionError(qs, quizId, data) ==
    IF getQuizError(qs, quizId) # NoError THEN getQuizError(qs, quizId)
    ELSE IF validateQuestionData(data) # NoError THEN validateQuestionData(data)
    ELSE IF addOptionsError(data.options) # NoError THEN addOptionsError(data.options)
    ELSE validate(builtQuestion(data, 0, 0))

\* the checks on answers[i] without the one on an empty selectedOptionIds
answerErrorAllowEmpty(answers, i, quiz) ==
    LET answer == answers[i]
        questionIds == {quiz.questions[j].id : j \in 1..Len(quiz.questions)}
        answeredQuestionIds == {answers[j].questionId : j \in 1..(i - 1)}
    IN IF ~answer.isObject THEN ErrorAt("Answer must be an object", i)
       ELSE IF answer.questionId = 0 THEN ErrorAt("Answer is missing questionId", i)
       ELSE IF answer.questionId \notin questionIds
           THEN ErrorAt("Question not found in this quiz", answer.questionId)
       ELSE IF answer.questionId \in answeredQuestionIds
           THEN ErrorAt("Duplicate answer for question", answer.questionId)
       ELSE IF ~answer.selectedOptionIds.isArray
           THEN ErrorAt("Answer must have selectedOptionIds as an array", i)
       ELSE NoError

\* the checks on answers[i] without the Set of question ids answered so far
answerErrorNoDuplicates(answers, i, quiz) ==
    LET answer == answers[i]
        questionIds == {quiz.questions[j].id : j \in 1..Len(quiz.questions)}
    IN IF ~answer.isObject THEN ErrorAt("Answer must be an object", i)
       ELSE IF answer.questionId = 0 THEN ErrorAt("Answer is missing questionId", i)
       ELSE IF answer.questionId \notin questionIds
           THEN ErrorAt("Question not found in this quiz", answer.questionId)
       ELSE IF ~answer.selectedOptionIds.isArray
           THEN ErrorAt("Answer must have selectedOptionIds as an array", i)
       ELSE IF Len(answer.selectedOptionIds.items) = 0
           THEN ErrorAt("Answer must have at least one selected option", i)
       ELSE NoError

\* QuizService.validateAnswersFormat: the checks on answers[i], all entries
\* before it having passed
answerError(answers, i, quiz) ==
    LET answer == answers[i]
        questionIds == {quiz.questions[j].id : j \in 1..Len(quiz.questions)}
        answeredQuestionIds == {answers[j].questionId : j \in 1..(i - 1)}
    IN IF ~answer.isObject THEN ErrorAt("Answer must be an object", i)
       ELSE IF answer.questionId = 0 THEN ErrorAt("Answer is missing questionId", i)
       ELSE IF answer.questionId \notin questionIds
           THEN ErrorAt("Question not found in this quiz", answer.questionId)
       ELSE IF answer.questionId \in answeredQuestionIds
           THEN ErrorAt("Duplicate answer for question", answer.questionId)
       ELSE IF ~answer.selectedOptionIds.isArray
           THEN ErrorAt("Answer must have selectedOptionIds as an array", i)
       ELSE IF Len(answer.selectedOptionIds.items) = 0
           THEN ErrorAt("Answer must have at least one selected option", i)
       ELSE NoError

\* validateAnswersFormat without the comparison to the number of questions
validateAnswersFormatNoCount(answers, quiz) ==
    IF ~answers.isArray THEN Error("Answers must be an array")
    ELSE IF Len(answers.items) = 0 THEN Error("At least one answer must be provided")
    ELSE LET bad == {i \in 1..Len(answers.items) :
                        answerError(answers.items, i, quiz) # NoError}
         IN IF bad = {} THEN NoError
            ELSE answerError(answers.items, CHOOSE i \in bad : \A j \in bad : i <= j, quiz)

\* QuizService.validateAnswersFormat
validateAnswersFormat(answers, quiz) ==
    IF ~answers.isArray THEN Error("Answers must be an array")
    ELSE IF Len(answers.items) = 0 THEN Error("At least one answer must be provided")
    ELSE IF Len(answers.items) > Len(quiz.questions)
        THEN Error("Number of answers exceeds number of questions")
    ELSE LET bad == {i \in 1..Len(answers.items) :
                        answerError(answers.items, i, quiz) # NoError}
         IN IF bad = {} THEN NoError
            ELSE answerError(answers.items, CHOOSE i \in bad : \A j \in bad : i <= j, quiz)

\* the option id check against the options of every question of the quiz
invalidOptionOfQuiz(answer, quiz) ==
    LET q == findQuestionById(quiz, answer.questionId)
        validOptionIds == UNION {{quiz.questions[k].options[j].id :
                                     j \in 1..Len(quiz.questions[k].options)} :
                                 k \in 1..Len(quiz.questions)}
        ids == answer.selectedOptionIds.items
        bad == {k \in 1..Len(ids) : ids[k] \notin validOptionIds}
    IN IF bad = {} THEN NoError
       ELSE ErrorOn("Invalid option ID", ids[CHOOSE k \in bad : \A j \in bad : k <= j], q.id)

\* processAnswers: the first selected id of answer that is no option of its question
invalidOptionError(answer, quiz) ==
    LET q == findQuestionById(quiz, answer.questionId)
        validOptionIds == {q.options[j].id : j \in 1..Len(q.options)}
        ids == answer.selectedOptionIds.items
        bad == {k \in 1..Len(ids) : ids[k] \notin validOptionIds}
    IN IF bad = {} THEN NoError
       ELSE ErrorOn("Invalid option ID", ids[CHOOSE k \in bad : \A j \in bad : k <= j], q.id)

\* QuizService.processAnswers: the error thrown
processAnswersError(answers, quiz) ==
    LET bad == {i \in 1..Len(answers.items) :
                    invalidOptionError(answers.items[i], quiz) # NoError}
    IN IF bad = {} THEN NoError
       ELSE invalidOptionError(answers.items[CHOOSE i \in bad : \A j \in bad : i <= j], quiz)

\* QuizService.getOptionDetails
getOptionDetails(q, optionIds) ==
    LET found == SelectSeq(optionIds,
                     LAMBDA id : \E j \in 1..Len(q.options) : q.options[j].id = id)
    IN [k \in 1..Len(found) |->
           LET option == q.options[CHOOSE j \in 1..Len(q.options) :
                                       /\ q.options[j].id = found[k]
                                       /\ \A h \in 1..(j - 1) : q.options[h].id # found[k]]
           IN [id |-> option.id, text |-> option.text]]

\* one pass of the forEach of processAnswers: the result pushed for answer
answerResult(answer, quiz) ==
    LET q == findQuestionById(quiz, answer.questionId)
    IN [questionId |-> answer.questionId,
        questionText |-> q.text,
        questionType |-> q.type,
        selectedOptionIds |-> answer.selectedOptionIds.items,
        correctOptionIds |-> getCorrectOptionIds(q),
        isCorrect |-> isAnswerCorrect(q, answer.selectedOptionIds),
        selectedOptions |-> getOptionDetails(q, answer.selectedOptionIds.items),
        correctOptions |-> getOptionDetails(q, getCorrectOptionIds(q))]

\* QuizService.processAnswers: the results
processAnswers(answers, quiz) ==
    [i \in 1..Len(answers.items) |-> answerResult(answers.items[i], quiz)]

\* submitQuizAnswers checking the option ids of each entry right after the
\* structure of that entry
submitQuizAnswersErrorPerEntry(qs, quizId, answers) ==
    IF getQuizError(qs, quizId) # NoError THEN getQuizError(qs, quizId)
    ELSE IF Len(MapGet(qs, quizId).questions) = 0 THEN Error("Quiz has no questions")
    ELSE IF ~answers.isArray THEN Error("Answers must be an array")
    ELSE IF Len(answers.items) = 0 THEN Error("At least one answer must be provided")
    ELSE IF Len(answers.items) > Len(MapGet(qs, quizId).questions)
        THEN Error("Number of answers exceeds number of questions")
    ELSE LET quiz == MapGet(qs, quizId)
             errorAt(i) == IF answerError(answers.items, i, quiz) # NoError
                               THEN answerError(answers.items, i, quiz)
                               ELSE invalidOptionError(answers.items[i], quiz)
             bad == {i \in 1..Len(answers.items) : errorAt(i) # NoError}
         IN IF bad = {} THEN NoError
            ELSE errorAt(CHOOSE i \in bad : \A j \in bad : i <= j)

\* QuizService.submitQuizAnswers: the error thrown
submitQuizAnswersError(qs, quizId, answers) ==
    IF getQuizError(qs, quizId) # NoError THEN getQuizError(qs, quizId)
    ELSE IF Len(MapGet(qs, quizId).questions) = 0 THEN Error("Quiz has no questions")
    ELSE IF validateAnswersFormat(answers, MapGet(qs, quizId)) # NoError
        THEN validateAnswersFormat(answers, MapGet(qs, quizId))
    ELSE processAnswersError(answers, MapGet(qs, quizId))

\* QuizService.submitQuizAnswers: the object returned
submitQuizAnswers(qs, quizId, answers, time) ==
    LET quiz == MapGet(qs, quizId)
        results == processAnswers(answers, quiz)
        stats == calculateStatistics(results, Len(quiz.questions))
    IN [score |-> stats.score,
        total |-> stats.total,
        percentage |-> stats.percentage,
        answeredCount |-> stats.answeredCount,
        unansweredCount |-> stats.unansweredCount,
        passed |-> stats.passed,
        grade |-> stats.grade,
        results |-> results,
        submittedAt |-> time]

\* QuizService.updateQuizTitle: the error thrown
updateQuizTitleError(qs, quizId, newTitle) ==
    IF getQuizError(qs, quizId) # NoError THEN getQuizError(qs, quizId)
    ELSE IF ~truthy(newTitle) \/ ~newTitle.isString
        THEN Error("New title must be a non-empty string")
    ELSE IF length(trim(newTitle)) = 0 THEN Error("Quiz title cannot be empty")
    ELSE IF length(trim(newTitle)) > TitleMax
        THEN Error("Quiz title cannot exceed 200 characters")
    ELSE NoError

(***************************************************************************)
(* calculateStatistics on its own: a result list of some correct and some  *)
(* incorrect entries, against a quiz of totalQuestions questions.          *)
(***************************************************************************)
MaxTotal == 40      \* questions of the quiz whose results are aggregated

InitStatistics ==
    /\ quizzes = <<>>
    /\ nextId = 1
    /\ now = 0
    /\ question = NoQuestion
    /\ input = [results |-> <<>>, totalQuestions |-> 0]
    /\ last = NoCall

\* the quiz has one more question
SMoreQuestions ==
    /\ input.totalQuestions < MaxTotal
    /\ input' = [input EXCEPT !.totalQuestions = @ + 1]
    /\ last' = NoCall
    /\ UNCHANGED <<quizzes, nextId, now, question>>

\* processAnswers pushed one more result (correct entries are kept first)
SPushResult(isCorrect) ==
    /\ Len(input.results) < input.totalQuestions
    /\ input' = [input EXCEPT !.results =
                    IF isCorrect THEN <<[isCorrect |-> TRUE]>> \o @
                    ELSE Append(@, [isCorrect |-> FALSE])]
    /\ last' = NoCall
    /\ UNCHANGED <<quizzes, nextId, now, question>>

\* this.calculateStatistics(results, quiz.questions.length)
SCalculateStatistics ==
    /\ last' = Call("calculateStatistics", <<>>, NoError,
                    calculateStatistics(input.results, input.totalQuestions))
    /\ UNCHANGED <<quizzes, nextId, now, question, input>>

NextStatistics ==
    \/ SMoreQuestions
    \/ \E isCorrect \in BOOLEAN : SPushResult(isCorrect)
    \/ SCalculateStatistics

StatisticsSpec == InitStatistics /\ [][NextStatistics]_vars

(***************************************************************************)
(* Grade and percentage (claim C7)                                         *)
(***************************************************************************)
\* score / total * 100 to the nearest integer, halves upward, in exact arithmetic
RoundedPercentage(score, total) == (200 * score + total) \div (2 * total)

GradeOfPercentage(p) ==
    CASE p >= 90 -> "A"
      [] p >= 80 /\ p <= 89 -> "B"
      [] p >= 70 /\ p <= 79 -> "C"
      [] p >= 60 /\ p <= 69 -> "D"
      [] OTHER -> "F"

\* C7: grade and pass flag are the fixed functions of the percentage (A from
\* 90, B 80..89, C 70..79, D 60..69, F below; passed from 60), and the
\* percentage is score / total * 100 rounded to the nearest integer, halves up.
C7_GradeAndPercentage ==
    (last.op = "calculateStatistics" /\ input.totalQuestions > 0) =>
        /\ last.value.grade = GradeOfPercentage(last.value.percentage)
        /\ last.value.passed = (last.value.percentage >= 60)
        /\ last.value.passed = (last.value.grade # "F")
        /\ last.value.percentage = RoundedPercentage(last.value.score, last.value.total)

\* the part of C7 the code keeps: grade and pass flag follow the percentage
C7_GradeFollowsPercentage ==
    (last.op = "calculateStatistics" /\ input.totalQuestions > 0) =>
        /\ last.value.grade = GradeOfPercentage(last.value.percentage)
        /\ last.value.passed = (last.value.percentage >= 60)
        /\ last.value.passed = (last.value.grade # "F")

(***************************************************************************)
(* Submitting answers to quizzes built through the service.  The caller    *)
(* builds the answers payload entry by entry and selected id by selected   *)
(* id, then submits it.                                                    *)
(***************************************************************************)
MaxQuestions == 2   \* questions added to a quiz
MaxInput == 5       \* entries plus selected ids of an answers payload

QuizTitle == Str("quiz", FALSE, 1, 4, 1)

OptionWord(i) == IF i = 1 THEN "a" ELSE IF i = 2 THEN "b" ELSE IF i = 3 THEN "c" ELSE "d"

\* questionData with one option per flag, option i reading OptionWord(i)
QuestionData(text, type, flags) ==
    [isObject |-> TRUE, text |-> text, type |-> type,
     options |-> [isArray |-> TRUE,
                  items |-> [i \in 1..Len(flags) |->
                                [isObject |-> TRUE,
                                 text |-> Str(OptionWord(i), FALSE, 0, 1, 0),
                                 isCorrect |-> flags[i]]]]]

\* the questions put to the quizzes that are submitted to
SubmitQuestions ==
    {QuestionData(QuestionText, "single_choice", <<"false", "true">>),
     QuestionData(QuestionText, "multiple_choice", <<"true", "false", "true">>),
     QuestionData(QuestionText, "text", <<"true", "true", "false">>),
     QuestionData(QuestionText, "text", <<"false">>),
     QuestionData(QuestionText, "single_choice", <<"true", "true">>)}

\* createQuiz(title) when it does not throw: the Map afterwards
createQuiz(qs, title, id, time) == MapSet(qs, NewQuiz(trim(title), id, time))

\* addQuestion(quizId, questionData) when it does not throw: the Map afterwards
addQuestion(qs, quizId, data, id, time) ==
    MapSet(qs, quizAddQuestion(MapGet(qs, quizId), builtQuestion(data, id, time), time))

\* the ids addQuestion draws: one for the question, one for each option
idsOf(data) == 1 + Len(data.options.items)

\* addQuestion called for each of datas in turn, the rejected ones changing nothing
RECURSIVE addQuestions(_, _, _, _)
addQuestions(qs, quizId, datas, id) ==
    IF datas = <<>> THEN qs
    ELSE IF addQuestionError(qs, quizId, Head(datas)) # NoError
        THEN addQuestions(qs, quizId, Tail(datas), id)
    ELSE addQuestions(addQuestion(qs, quizId, Head(datas), id, 0), quizId,
                      Tail(datas), id + idsOf(Head(datas)))

\* a first quiz (id 1) with one single_choice question (ids 2..4)
OtherQuiz ==
    addQuestion(createQuiz(<<>>, QuizTitle, 1, 0), 1,
                QuestionData(QuestionText, "single_choice", <<"true", "false">>), 2, 0)

NoAnswers == [isArray |-> TRUE, items |-> <<>>]

InitSubmit ==
    /\ \E datas \in SeqsUpTo(SubmitQuestions, MaxQuestions) :
           quizzes = addQuestions(createQuiz(OtherQuiz, QuizTitle, 5, 0), 5, datas, 6)
    /\ nextId = 6 + 4 * MaxQuestions
    /\ now = 0
    /\ question = NoQuestion
    /\ input = NoAnswers
    /\ last = NoCall

\* entries plus selected ids (or an omitted selectedOptionIds) of the payload built so far
InputSize ==
    Len(input.items)
      + Cardinality(UNION {{i} \X (1..Len(input.items[i].selectedOptionIds.items)) :
                              i \in 1..Len(input.items)})
      + Cardinality({i \in 1..Len(input.items) :
                        input.items[i].isObject /\ ~input.items[i].selectedOptionIds.isArray})

\* the caller appends an entry { questionId, selectedOptionIds: [] }
SAppendAnswer(questionId) ==
    /\ input.isArray
    /\ InputSize < MaxInput
    /\ input' = [input EXCEPT !.items =
                    Append(@, [isObject |-> TRUE, questionId |-> questionId,
                               selectedOptionIds |-> NoSelection])]
    /\ last' = NoCall
    /\ UNCHANGED <<quizzes, nextId, now, question>>

\* the caller appends an entry that is no object (null, a string)
SAppendNonObject ==
    /\ input.isArray
    /\ InputSize < MaxInput
    /\ input' = [input EXCEPT !.items =
                    Append(@, [isObject |-> FALSE, questionId |-> 0,
                               selectedOptionIds |-> NoSelection])]
    /\ last' = NoCall
    /\ UNCHANGED <<quizzes, nextId, now, question>>

\* the caller leaves selectedOptionIds out of the last entry
SOmitSelection ==
    /\ input.isArray
    /\ InputSize < MaxInput
    /\ Len(input.items) > 0
    /\ input.items[Len(input.items)].isObject
    /\ input.items[Len(input.items)].selectedOptionIds = NoSelection
    /\ input' = [input EXCEPT !.items[Len(input.items)].selectedOptionIds = NotAnArray]
    /\ last' = NoCall
    /\ UNCHANGED <<quizzes, nextId, now, question>>

\* the caller selects one more option id in the last entry
SSelectOption(optionId) ==
    /\ input.isArray
    /\ InputSize < MaxInput
    /\ Len(input.items) > 0
    /\ input.items[Len(input.items)].isObject
    /\ input.items[Len(input.items)].selectedOptionIds.isArray
    /\ input' = [input EXCEPT !.items[Len(input.items)].selectedOptionIds.items =
                    Append(@, optionId)]
    /\ last' = NoCall
    /\ UNCHANGED <<quizzes, nextId, now, question>>

\* the caller passes something that is no array as answers
SNonArrayAnswers ==
    /\ input = NoAnswers
    /\ input' = NotAnArray
    /\ last' = NoCall
    /\ UNCHANGED <<quizzes, nextId, now, question>>

\* submitQuizAnswers handing back, next to the error, the results of the
\* entries scored before the failing one
SubmitQuizAnswersPartial(quizId) ==
    /\ IF submitQuizAnswersError(quizzes, quizId, input) # NoError
           THEN LET scored == {k \in 1..Len(input.items) :
                                  submitQuizAnswersError(quizzes, quizId,
                                      [input EXCEPT !.items = SubSeq(@, 1, k)]) = NoError}
                    upTo == IF scored = {} THEN 0
                            ELSE CHOOSE k \in scored : \A j \in scored : j <= k
                IN last' = Call("submitQuizAnswers", quizId,
                                submitQuizAnswersError(quizzes, quizId, input),
                                processAnswers([input EXCEPT !.items = SubSeq(@, 1, upTo)],
                                               MapGet(quizzes, quizId)))
           ELSE last' = Call("submitQuizAnswers", quizId, NoError,
                             submitQuizAnswers(quizzes, quizId, input, now))
    /\ UNCHANGED <<quizzes, nextId, now, question, input>>

\* quizService.submitQuizAnswers(quizId, answers)
SubmitQuizAnswers(quizId) ==
    /\ IF submitQuizAnswersError(quizzes, quizId, input) # NoError
           THEN last' = Call("submitQuizAnswers", quizId,
                             submitQuizAnswersError(quizzes, quizId, input), <<>>)
           ELSE last' = Call("submitQuizAnswers", quizId, NoError,
                             submitQuizAnswers(quizzes, quizId, input, now))
    /\ UNCHANGED <<quizzes, nextId, now, question, input>>

\* every question held in the repository, in Map order
AllQuestions ==
    LET RECURSIVE flat(_)
        flat(i) == IF i > Len(quizzes) THEN <<>> ELSE quizzes[i].questions \o flat(i + 1)
    IN flat(1)

\* the ids a caller may select for an entry on questionId: the options of
\* that question, the first option of the question held next to it, and 0
Selectable(questionId) ==
    LET all == AllQuestions
        own == {i \in 1..Len(all) : all[i].id = questionId}
        near == {(i % Len(all)) + 1 : i \in own}
    IN {0} \cup UNION {{all[i].options[k].id : k \in 1..Len(all[i].options)} : i \in own}
           \cup {all[i].options[1].id : i \in near}

NextSubmit ==
    \/ \E questionId \in {AllQuestions[i].id : i \in 1..Len(AllQuestions)} \cup {0} :
           SAppendAnswer(questionId)
    \/ SAppendNonObject
    \/ SOmitSelection
    \/ \E optionId \in Selectable(IF Len(input.items) > 0
                                     THEN input.items[Len(input.items)].questionId
                                     ELSE 0) : SSelectOption(optionId)
    \/ SNonArrayAnswers
    \/ \E quizId \in {quizzes[i].id : i \in 1..Len(quizzes)} : SubmitQuizAnswers(quizId)

SubmitSpec == InitSubmit /\ [][NextSubmit]_vars

(***************************************************************************)
(* Scoring of a submission (claims C6, C8, C9)                             *)
(***************************************************************************)
Submitted == last.op = "submitQuizAnswers" /\ last.ok

\* the entries of the submitted payload that isAnswerCorrect judges correct
CorrectEntries ==
    {i \in 1..Len(input.items) :
        isAnswerCorrect(findQuestionById(MapGet(quizzes, last.arg), input.items[i].questionId),
                        input.items[i].selectedOptionIds)}

\* C6: a successful submission reports score = the number of submitted entries
\* judged correct, total = the number of questions of the quiz, answeredCount =
\* the number of submitted entries and unansweredCount = total - answeredCount.
C6_ScoreCounts ==
    Submitted =>
        /\ last.value.score = Cardinality(CorrectEntries)
        /\ last.value.total = Len(MapGet(quizzes, last.arg).questions)
        /\ last.value.answeredCount = Len(input.items)
        /\ last.value.unansweredCount = last.value.total - last.value.answeredCount

C6_Witness ==
    /\ Submitted
    /\ last.value.total = 2
    /\ last.value.answeredCount = 1
    /\ last.value.score = 1

\* C8: every returned result has total >= 1, 0 <= score <= answeredCount <=
\* total, unansweredCount >= 0 and 0 <= percentage <= 100; no submission to a
\* quiz without questions is accepted.
C8_ResultBounds ==
    Submitted =>
        /\ last.value.total >= 1
        /\ Len(MapGet(quizzes, last.arg).questions) >= 1
        /\ 0 <= last.value.score
        /\ last.value.score <= last.value.answeredCount
        /\ last.value.answeredCount <= last.value.total
        /\ last.value.unansweredCount >= 0
        /\ 0 <= last.value.percentage
        /\ last.value.percentage <= 100

C8_Witness ==
    /\ Submitted
    /\ last.value.unansweredCount = 1
    /\ last.value.score = 0
    /\ last.value.answeredCount = 1
    /\ last.value.percentage = 0

\* the payloads holding the entries of the input in another order
Reordered ==
    LET n == Len(input.items)
    IN {[isArray |-> TRUE, items |-> [i \in 1..n |-> input.items[f[i]]]] :
           f \in {g \in [1..n -> 1..n] : \A i, j \in 1..n : g[i] = g[j] => i = j}}

\* C9: every permutation of an accepted payload is accepted with the same
\* score, percentage, grade, total, answeredCount and passed flag.
C9_OrderInvariant ==
    Submitted =>
        \A answers \in Reordered :
            /\ submitQuizAnswersError(quizzes, last.arg, answers) = NoError
            /\ LET other == submitQuizAnswers(quizzes, last.arg, answers, now)
               IN /\ other.score = last.value.score
                  /\ other.percentage = last.value.percentage
                  /\ other.grade = last.value.grade
                  /\ other.total = last.value.total
                  /\ other.answeredCount = last.value.answeredCount
                  /\ other.passed = last.value.passed

C9_Witness ==
    /\ Submitted
    /\ Len(input.items) = 2
    /\ last.value.results[1].isCorrect
    /\ ~last.value.results[2].isCorrect

(***************************************************************************)
(* The service over its lifetime.  The caller builds a questionData        *)
(* payload (text and type, then option by option) and hands it to          *)
(* addQuestion; quizzes are created, renamed, deleted and cleared.  Ids    *)
(* come from uuidv4(), modelled as a counter of the ids handed out to      *)
(* objects that are kept; the quizzes are created first and take the       *)
(* first ids.                                                              *)
(***************************************************************************)
MaxQuizzes == 1     \* quizzes created
MaxIds == 7         \* ids handed out to quizzes, questions and options

ShortTitle == Str("ab", FALSE, 0, 2, 0)
Titles == {QuizTitle, ShortTitle}

\* a text of 300 characters between two blanks, and one of 301 characters
PaddedText == Str("long", FALSE, 1, TextLimit, 1)
LongText == Str("long", FALSE, 0, TextLimit + 1, 0)

\* text and type of the payloads handed to addQuestion ("" is a missing type)
Headers ==
    ({QuestionText} \X (QuestionTypes \cup {"essay", ""}))
        \cup ({PaddedText, LongText} \X {"text"})
        \cup ({LongText} \X {"single_choice"})

\* values of an option's isCorrect
Flags == {"true", "false"}

NoQuestionData ==
    [isObject |-> FALSE, text |-> Undefined, type |-> "", options |-> NotAnArray]

Init ==
    /\ quizzes = <<>>
    /\ nextId = 1
    /\ now = 0
    /\ question = NoQuestion
    /\ input = NoQuestionData
    /\ last = NoCall

\* quizService.createQuiz(title)
CreateQuiz(title) ==
    /\ nextId <= MaxQuizzes
    /\ IF createQuizError(title) # NoError
           THEN /\ last' = Call("createQuiz", title, createQuizError(title), <<>>)
                /\ UNCHANGED <<quizzes, nextId>>
           ELSE /\ quizzes' = createQuiz(quizzes, title, nextId, now)
                /\ nextId' = nextId + 1
                /\ last' = Call("createQuiz", title, NoError, nextId)
    /\ UNCHANGED <<now, question, input>>

\* the caller starts a payload { text, type, options: [] }
StartQuestionData(text, type) ==
    /\ input' = QuestionData(text, type, <<>>)
    /\ last' = NoCall
    /\ UNCHANGED <<quizzes, nextId, now, question>>

\* the caller appends an option { text, isCorrect } with a text of its own
AppendOption(isCorrect) ==
    /\ input.isObject
    /\ input.options.isArray
    /\ Len(input.options.items) < MaxOpts
    /\ input' = [input EXCEPT !.options.items =
                    Append(@, [isObject |-> TRUE,
                               text |-> Str(OptionWord(Len(@) + 1), FALSE, 0, 1, 0),
                               isCorrect |-> isCorrect])]
    /\ last' = NoCall
    /\ UNCHANGED <<quizzes, nextId, now, question>>

\* quizService.addQuestion(quizId, questionData)
AddQuestion(quizId) ==
    /\ nextId + MaxOpts <= MaxIds
    /\ IF addQuestionError(quizzes, quizId, input) # NoError
           THEN /\ last' = Call("addQuestion", quizId,
                                addQuestionError(quizzes, quizId, input), <<>>)
                /\ UNCHANGED <<quizzes, nextId>>
           ELSE /\ quizzes' = addQuestion(quizzes, quizId, input, nextId, now)
                /\ nextId' = nextId + idsOf(input)
                /\ last' = Call("addQuestion", quizId, NoError, nextId)
    /\ UNCHANGED <<now, question, input>>

\* quizService.updateQuizTitle(quizId, newTitle)
UpdateQuizTitle(quizId, newTitle) ==
    /\ IF updateQuizTitleError(quizzes, quizId, newTitle) # NoError
           THEN /\ last' = Call("updateQuizTitle", quizId,
                                updateQuizTitleError(quizzes, quizId, newTitle), <<>>)
                /\ UNCHANGED quizzes
           ELSE /\ quizzes' = MapSet(quizzes,
                                  [MapGet(quizzes, quizId) EXCEPT
                                      !.title = trim(newTitle), !.updatedAt = now])
                /\ last' = Call("updateQuizTitle", quizId, NoError, quizId)
    /\ UNCHANGED <<nextId, now, question, input>>

\* deleteQuiz returning true for a quiz it leaves in the Map
DeleteQuizKeeps(quizId) ==
    /\ IF getQuizError(quizzes, quizId) # NoError
           THEN last' = Call("deleteQuiz", quizId, getQuizError(quizzes, quizId), <<>>)
           ELSE last' = Call("deleteQuiz", quizId, NoError, TRUE)
    /\ UNCHANGED <<quizzes, nextId, now, question, input>>

\* quizService.deleteQuiz(quizId)
DeleteQuiz(quizId) ==
    /\ IF getQuizError(quizzes, quizId) # NoError
           THEN /\ last' = Call("deleteQuiz", quizId, getQuizError(quizzes, quizId), <<>>)
                /\ UNCHANGED quizzes
           ELSE /\ quizzes' = MapDelete(quizzes, quizId)
                /\ last' = Call("deleteQuiz", quizId, NoError, TRUE)
    /\ UNCHANGED <<nextId, now, question, input>>

\* quizService.clearAll()
ClearAll ==
    /\ quizzes' = <<>>
    /\ last' = Call("clearAll", 0, NoError, <<>>)
    /\ UNCHANGED <<nextId, now, question, input>>

\* the quiz ids a caller passes: those held and one that was never handed out
QuizIds == {quizzes[i].id : i \in 1..Len(quizzes)} \cup {MaxIds + 1}

Next ==
    \/ \E title \in Titles : CreateQuiz(title)
    \/ \E h \in Headers : StartQuestionData(h[1], h[2])
    \/ \E isCorrect \in Flags : AppendOption(isCorrect)
    \/ \E quizId \in QuizIds : AddQuestion(quizId)
    \/ \E quizId \in QuizIds, newTitle \in Titles : UpdateQuizTitle(quizId, newTitle)
    \/ \E quizId \in QuizIds : DeleteQuiz(quizId)
    \/ ClearAll

Spec == Init /\ [][Next]_vars

(***************************************************************************)
(* Answer-key rules of the stored questions (claim C10)                    *)
(***************************************************************************)
StoredQuestions == UNION {Range(quizzes[i].questions) : i \in 1..Len(quizzes)}

\* the answer-key rules for a question of the given type and text length
\* with n options of which c are correct
TypeRules(type, textLength, n, c) ==
    /\ c >= 1
    /\ type \in {"single_choice", "multiple_choice", "text"}
    /\ type = "single_choice" => (c = 1 /\ n >= 2)
    /\ type = "multiple_choice" => (c >= 2 /\ n - c >= 1 /\ n >= 3)
    /\ type = "text" => textLength <= 300

KeepsTypeRules(q) ==
    TypeRules(q.type, length(q.text), Len(q.options),
              Cardinality({j \in 1..Len(q.options) : q.options[j].isCorrect}))

\* the question the payload asks for breaks a rule
PayloadBreaksRules ==
    ~TypeRules(input.type, length(trim(input.text)), Len(input.options.items),
               Cardinality({j \in 1..Len(input.options.items) :
                               input.options.items[j].isCorrect = "true"}))

\* C10: every question held by any quiz of the repository keeps the answer-key
\* rules of its type (at least one correct option; single_choice exactly one
\* correct and at least two options; multiple_choice at least two correct, at
\* least one incorrect and at least three options; a known type; a text
\* question of at most 300 characters), and addQuestion rejects every payload
\* that would break one of them.
C10_TypeRulesKept ==
    /\ \A q \in StoredQuestions : KeepsTypeRules(q)
    /\ (last.op = "addQuestion" /\ input.isObject /\ PayloadBreaksRules) => ~last.ok

C10_Witness ==
    /\ last.op = "addQuestion"
    /\ ~last.ok
    /\ MapHas(quizzes, last.arg)
    /\ input.isObject
    /\ input.type = "multiple_choice"
    /\ Len(input.options.items) = 3
    /\ PayloadBreaksRules
    /\ \E q \in StoredQuestions : q.type = "text" /\ length(q.text) = 300

(***************************************************************************)
(* The options of an addQuestion payload.  The caller writes a payload     *)
(* option by option: regular options (a one-letter text of their own, the  *)
(* first one correct) and at most one irregular option (text at the length *)
(* limit between blanks, over the limit, blank, repeating the first        *)
(* option's text in another case, or a malformed option), and may fill the *)
(* payload up to the                                                       *)
(* option limit and one beyond.  The payload goes to a quiz that holds a   *)
(* question already and stands next to another quiz.                       *)
(***************************************************************************)
MaxStored == 2      \* questions the target quiz holds
MaxTitled == 2      \* quizzes created from the title payloads

OptionNames == <<"a", "b", "c", "d", "e", "f", "g", "h", "i", "j", "k", "l", "m", "n">>

TargetQuiz == 5

\* the regular option written at index i
RegularOption(i) ==
    [isObject |-> TRUE, text |-> Str(OptionNames[i], FALSE, 0, 1, 0),
     isCorrect |-> IF i = 1 THEN "true" ELSE "false"]

\* the texts of the irregular options written at index i
IrregularTexts(i) ==
    {Str(OptionNames[i], FALSE, 1, OptionTextMax, 1),
     Str(OptionNames[i], FALSE, 0, OptionTextMax + 1, 0),
     Str("", FALSE, 2, 0, 0),
     Str(OptionNames[1], TRUE, 1, 1, 0)}

\* the irregular options written at index i: a regular option with an
\* irregular text, without text, with an isCorrect that is no boolean or
\* without isCorrect, and a value that is no object
IrregularOptions(i) ==
    {[RegularOption(i) EXCEPT !.text = text] : text \in IrregularTexts(i)}
        \cup {[RegularOption(i) EXCEPT !.text = Undefined],
              [RegularOption(i) EXCEPT !.isCorrect = "yes"],
              [RegularOption(i) EXCEPT !.isCorrect = "undefined"],
              [isObject |-> FALSE, text |-> Undefined, isCorrect |-> "undefined"]}

AllRegular ==
    \A i \in 1..Len(input.options.items) : input.options.items[i] = RegularOption(i)

\* the target quiz holds one question (ids 6..8) before the payloads arrive
InitOptions ==
    /\ quizzes = addQuestion(createQuiz(OtherQuiz, QuizTitle, TargetQuiz, 0), TargetQuiz,
                             QuestionData(QuestionText, "text", <<"true", "false">>),
                             TargetQuiz + 1, 0)
    /\ nextId = TargetQuiz + 4
    /\ now = 0
    /\ question = NoQuestion
    /\ input = NoQuestionData
    /\ last = NoCall

\* the caller starts a payload { text, type, options: [] }
OStartQuestionData(type) ==
    /\ input' = QuestionData(QuestionText, type, <<>>)
    /\ last' = NoCall
    /\ UNCHANGED <<quizzes, nextId, now, question>>

\* the caller appends a regular option
OAppendOption ==
    /\ input.isObject
    /\ Len(input.options.items) < MaxOpts
    /\ input' = [input EXCEPT !.options.items =
                    Append(@, RegularOption(Len(@) + 1))]
    /\ last' = NoCall
    /\ UNCHANGED <<quizzes, nextId, now, question>>

\* the caller appends an irregular option
OAppendIrregular(option) ==
    /\ input.isObject
    /\ Len(input.options.items) < MaxOpts
    /\ AllRegular
    /\ input' = [input EXCEPT !.options.items =
                    Append(@, option)]
    /\ last' = NoCall
    /\ UNCHANGED <<quizzes, nextId, now, question>>

\* the caller appends regular options until the payload has n of them
OFillOptions(n) ==
    /\ input.isObject
    /\ Len(input.options.items) < n
    /\ input' = [input EXCEPT !.options.items =
                    [i \in 1..n |-> IF i <= Len(@) THEN @[i] ELSE RegularOption(i)]]
    /\ last' = NoCall
    /\ UNCHANGED <<quizzes, nextId, now, question>>

\* addQuestion attaching the question to the quiz before question.validate()
OAddQuestionAttachFirst ==
    /\ \/ addQuestionError(quizzes, TargetQuiz, input) # NoError
       \/ Len(MapGet(quizzes, TargetQuiz).questions) < MaxStored
    /\ IF addQuestionError(quizzes, TargetQuiz, input) # NoError
           THEN /\ last' = Call("addQuestion", TargetQuiz,
                                addQuestionError(quizzes, TargetQuiz, input), <<>>)
                /\ IF /\ validateQuestionData(input) = NoError
                      /\ addOptionsError(input.options) = NoError
                       THEN /\ quizzes' = addQuestion(quizzes, TargetQuiz, input, nextId, now)
                            /\ nextId' = nextId + idsOf(input)
                       ELSE UNCHANGED <<quizzes, nextId>>
           ELSE /\ quizzes' = addQuestion(quizzes, TargetQuiz, input, nextId, now)
                /\ nextId' = nextId + idsOf(input)
                /\ last' = Call("addQuestion", TargetQuiz, NoError, nextId)
    /\ UNCHANGED <<now, question, input>>

\* quizService.addQuestion(TargetQuiz, questionData)
OAddQuestion ==
    /\ \/ addQuestionError(quizzes, TargetQuiz, input) # NoError
       \/ Len(MapGet(quizzes, TargetQuiz).questions) < MaxStored
    /\ IF addQuestionError(quizzes, TargetQuiz, input) # NoError
           THEN /\ last' = Call("addQuestion", TargetQuiz,
                                addQuestionError(quizzes, TargetQuiz, input), <<>>)
                /\ UNCHANGED <<quizzes, nextId>>
           ELSE /\ quizzes' = addQuestion(quizzes, TargetQuiz, input, nextId, now)
                /\ nextId' = nextId + idsOf(input)
                /\ last' = Call("addQuestion", TargetQuiz, NoError, nextId)
    /\ UNCHANGED <<now, question, input>>

NextOptions ==
    \/ \E type \in {"text", "multiple_choice"} : OStartQuestionData(type)
    \/ OAppendOption
    \/ \E option \in IrregularOptions(Len(input.options.items) + 1) :
           OAppendIrregular(option)
    \/ \E n \in {OptionsMax, OptionsMax + 1} : OFillOptions(n)
    \/ OAddQuestion

OptionsSpec == InitOptions /\ [][NextOptions]_vars

(***************************************************************************)
(* Options of the stored questions (claim C11)                             *)
(***************************************************************************)
\* two texts are the same after trimming and case-folding
SameFolded(s, t) == toLowerCase(trim(s)) = toLowerCase(trim(t))

KeepsOptionRules(q) ==
    /\ Len(q.options) \in 1..10
    /\ \A i \in 1..Len(q.options) :
           /\ q.options[i].text.isString
           /\ q.options[i].text = trim(q.options[i].text)
           /\ length(q.options[i].text) \in 1..500
    /\ \A i, j \in 1..Len(q.options) :
           SameFolded(q.options[i].text, q.options[j].text) => i = j

\* the payload has no or more than ten options, an over-long option text or
\* two option texts that are the same after trimming and case-folding
PayloadBreaksOptionRules ==
    LET items == input.options.items
        texts == {i \in 1..Len(items) : items[i].isObject /\ items[i].text.isString}
    IN \/ Len(items) = 0
       \/ Len(items) > 10
       \/ \E i \in texts : length(trim(items[i].text)) > 500
       \/ \E i, j \in texts : i # j /\ SameFolded(items[i].text, items[j].text)

\* C11: every stored question has 1 to 10 options, each option text trimmed,
\* non-empty and of at most 500 characters, no two of them the same after
\* trimming and case-folding; addQuestion rejects payloads with 0 or more than
\* 10 options, an over-long option or a case-insensitive duplicate.
C11_OptionRulesKept ==
    /\ \A q \in StoredQuestions : KeepsOptionRules(q)
    /\ (last.op = "addQuestion" /\ input.isObject /\ PayloadBreaksOptionRules) => ~last.ok

C11_Witness ==
    /\ last.op = "addQuestion"
    /\ ~last.ok
    /\ input.type = "text"
    /\ Len(input.options.items) = 3
    /\ SameFolded(input.options.items[1].text, input.options.items[3].text)
    /\ last.error = ErrorAt("Duplicate option text found", 3)

(***************************************************************************)
(* Reading a quiz back.  Questions of each type are added to a quiz that   *)
(* stands next to another quiz, and the questions are read through         *)
(* getQuizQuestions.                                                       *)
(***************************************************************************)
\* a view that copies the options as they are stored
fullView(q) ==
    [id |-> q.id, text |-> q.text, type |-> q.type, options |-> q.options]

\* Question.getPublicView
getPublicView(q) ==
    [id |-> q.id, text |-> q.text, type |-> q.type,
     options |-> [i \in 1..Len(q.options) |->
                     [id |-> q.options[i].id, text |-> q.options[i].text]]]

\* Quiz.getQuestionsWithoutAnswers
getQuestionsWithoutAnswers(quiz) ==
    [i \in 1..Len(quiz.questions) |-> getPublicView(quiz.questions[i])]

\* getQuizQuestions without the check for a quiz of no questions
getQuizQuestionsErrorAllowEmpty(qs, quizId) == getQuizError(qs, quizId)

\* QuizService.getQuizQuestions: the error thrown
getQuizQuestionsError(qs, quizId) ==
    IF getQuizError(qs, quizId) # NoError THEN getQuizError(qs, quizId)
    ELSE IF Len(MapGet(qs, quizId).questions) = 0 THEN Error("Quiz has no questions yet")
    ELSE NoError

\* QuizService.getQuizQuestions when it does not throw
getQuizQuestions(qs, quizId) == getQuestionsWithoutAnswers(MapGet(qs, quizId))

\* the payloads added: those of SubmitQuestions, a single_choice question of
\* three options and a text question of two
ReadPayloads ==
    SubmitQuestions
        \cup {QuestionData(QuestionText, "single_choice", <<"false", "false", "true">>),
              QuestionData(QuestionText, "text", <<"false", "true">>)}

InitRead ==
    /\ quizzes = createQuiz(OtherQuiz, QuizTitle, TargetQuiz, 0)
    /\ nextId = TargetQuiz + 1
    /\ now = 0
    /\ question = NoQuestion
    /\ input = NoQuestionData
    /\ last = NoCall

\* quizService.addQuestion(TargetQuiz, questionData)
RAddQuestion(data) ==
    /\ Len(MapGet(quizzes, TargetQuiz).questions) < MaxQuestions
    /\ IF addQuestionError(quizzes, TargetQuiz, data) # NoError
           THEN /\ last' = Call("addQuestion", TargetQuiz,
                                addQuestionError(quizzes, TargetQuiz, data), <<>>)
                /\ UNCHANGED <<quizzes, nextId>>
           ELSE /\ quizzes' = addQuestion(quizzes, TargetQuiz, data, nextId, now)
                /\ nextId' = nextId + idsOf(data)
                /\ last' = Call("addQuestion", TargetQuiz, NoError, nextId)
    /\ UNCHANGED <<now, question, input>>

\* quizService.getQuizQuestions(quizId)
RGetQuizQuestions(quizId) ==
    /\ IF getQuizQuestionsError(quizzes, quizId) # NoError
           THEN last' = Call("getQuizQuestions", quizId,
                             getQuizQuestionsError(quizzes, quizId), <<>>)
           ELSE last' = Call("getQuizQuestions", quizId, NoError,
                             getQuizQuestions(quizzes, quizId))
    /\ UNCHANGED <<quizzes, nextId, now, question, input>>

NextRead ==
    \/ \E data \in ReadPayloads : RAddQuestion(data)
    \/ \E quizId \in QuizIds \cup {0, -1} : RGetQuizQuestions(quizId)

ReadSpec == InitRead /\ [][NextRead]_vars

(***************************************************************************)
(* The answer-free projection (claim C12)                                  *)
(***************************************************************************)
\* the payload that asks for question q with its options flagged by flags
PayloadOf(q, flags) ==
    [isObject |-> TRUE, text |-> q.text, type |-> q.type,
     options |-> [isArray |-> TRUE,
                  items |-> [i \in 1..Len(q.options) |->
                                [isObject |-> TRUE, text |-> q.options[i].text,
                                 isCorrect |-> flags[i]]]]]

\* the flaggings of the options of q that addQuestion accepts
AcceptedFlaggings(q) ==
    {flags \in [1..Len(q.options) -> {"true", "false"}] :
        addQuestionError(quizzes, TargetQuiz, PayloadOf(q, flags)) = NoError}

\* a quiz built by the addQuestion calls that built quiz, question k flagged by fs[k]
Reflagged(quiz, fs) ==
    MapGet(addQuestions(createQuiz(<<>>, quiz.title, quiz.id, 0), quiz.id,
                        [k \in 1..Len(quiz.questions) |->
                            PayloadOf(quiz.questions[k], fs[k])],
                        quiz.id + 1),
           quiz.id)

\* every choice of one accepted flagging for each question of quiz
RECURSIVE Flaggings(_, _)
Flaggings(quiz, k) ==
    IF k = 0 THEN {<<>>}
    ELSE {Append(fs, f) : fs \in Flaggings(quiz, k - 1),
                          f \in AcceptedFlaggings(quiz.questions[k])}

\* texts, types and option texts of a projection, in order
Shown(view) ==
    [k \in 1..Len(view) |->
        [text |-> view[k].text, type |-> view[k].type,
         options |-> [i \in 1..Len(view[k].options) |-> view[k].options[i].text]]]

\* C12: every question returned by getQuizQuestions carries id, text, type and
\* options, every option only id and text (no isCorrect), and a quiz built by
\* the same addQuestion calls with other accepted flaggings of the options
\* shows the same question texts, types, option texts and option order.
C12_ProjectionHidesFlags ==
    (last.op = "getQuizQuestions" /\ last.ok) =>
        /\ \A k \in 1..Len(last.value) :
               /\ DOMAIN last.value[k] = {"id", "text", "type", "options"}
               /\ \A i \in 1..Len(last.value[k].options) :
                      DOMAIN last.value[k].options[i] = {"id", "text"}
        /\ LET quiz == MapGet(quizzes, last.arg)
           IN \A fs \in Flaggings(quiz, Len(quiz.questions)) :
                  /\ Len(Reflagged(quiz, fs).questions) = Len(quiz.questions)
                  /\ Shown(getQuestionsWithoutAnswers(Reflagged(quiz, fs))) = Shown(last.value)

C12_Witness ==
    /\ last.op = "getQuizQuestions"
    /\ last.ok
    /\ last.arg = TargetQuiz
    /\ Len(last.value) = 2
    /\ MapGet(quizzes, TargetQuiz).questions[1].type = "multiple_choice"
    /\ MapGet(quizzes, TargetQuiz).questions[2].type = "text"
    /\ Len(getCorrectOptionIds(MapGet(quizzes, TargetQuiz).questions[2])) = 1

(***************************************************************************)
(* Rejected submissions (claims C13 to C17)                                *)
(***************************************************************************)
\* the two kinds of failure the controller tells apart
IsNotFound(error) == error.msg = "Quiz not found"
IsValidationError(error) == error # NoError /\ ~IsNotFound(error)

SubmitCalled == last.op = "submitQuizAnswers"
SubmittedTo == MapGet(quizzes, last.arg)

\* a submission that failed with a validation error and returned nothing
Refused == ~last.ok /\ IsValidationError(last.error) /\ last.value = <<>>

\* C13: submitQuizAnswers fails with a validation error and returns no result
\* when the payload is no array, is an empty array or has more entries than
\* the quiz has questions; on a quiz that has questions the error is the one
\* of that check.
C13_EnvelopeRefused ==
    SubmitCalled =>
        /\ ~input.isArray =>
               /\ Refused
               /\ Len(SubmittedTo.questions) > 0 =>
                      last.error = Error("Answers must be an array")
        /\ (input.isArray /\ Len(input.items) = 0) =>
               /\ Refused
               /\ Len(SubmittedTo.questions) > 0 =>
                      last.error = Error("At least one answer must be provided")
        /\ (input.isArray /\ Len(input.items) > Len(SubmittedTo.questions)) =>
               /\ Refused
               /\ Len(SubmittedTo.questions) > 0 =>
                      last.error = Error("Number of answers exceeds number of questions")

C13_Witness ==
    /\ SubmitCalled
    /\ Len(SubmittedTo.questions) = 2
    /\ Len(input.items) = 3
    /\ \A i \in 1..3 : input.items[i].isObject
    /\ last.error = Error("Number of answers exceeds number of questions")

\* entry i of the payload is no object, has no questionId, names no question
\* of the quiz, or has no selectedOptionIds array or an empty one
BadEntry(i) ==
    LET answer == input.items[i]
    IN \/ ~answer.isObject
       \/ answer.questionId = 0
       \/ \A k \in 1..Len(SubmittedTo.questions) :
              SubmittedTo.questions[k].id # answer.questionId
       \/ ~answer.selectedOptionIds.isArray
       \/ Len(answer.selectedOptionIds.items) = 0

\* C14: submitQuizAnswers fails with a validation error whenever some entry is
\* no object, has no questionId, names a question that is not of this quiz
\* (also one of another quiz), or has a selectedOptionIds that is missing, no
\* array or empty.
C14_BadEntryRefused ==
    (SubmitCalled /\ input.isArray /\ \E i \in 1..Len(input.items) : BadEntry(i))
        => Refused

C14_Witness ==
    /\ SubmitCalled
    /\ Len(SubmittedTo.questions) = 2
    /\ Len(input.items) = 2
    /\ ~BadEntry(1)
    /\ input.items[2].questionId \in {q.id : q \in Range(OtherQuiz[1].questions)}
    /\ last.error = ErrorAt("Question not found in this quiz", input.items[2].questionId)

\* entries i < j of the payload are objects carrying the same questionId
SameQuestion(i, j) ==
    /\ i < j
    /\ input.items[i].isObject
    /\ input.items[j].isObject
    /\ input.items[i].questionId # 0
    /\ input.items[i].questionId = input.items[j].questionId

Repeats == {p \in (1..Len(input.items)) \X (1..Len(input.items)) : SameQuestion(p[1], p[2])}

\* the duplicate check is the first one to fail: the payload has no more
\* entries than the quiz has questions, and up to the first repeating entry
\* every entry names a question of the quiz and, before it, has a non-empty
\* selectedOptionIds array
FirstRepeat == CHOOSE j \in {p[2] : p \in Repeats} : \A p \in Repeats : j <= p[2]

RepeatFailsFirst ==
    /\ Repeats # {}
    /\ Len(input.items) <= Len(SubmittedTo.questions)
    /\ \A i \in 1..(FirstRepeat - 1) : ~BadEntry(i)
    /\ \E k \in 1..Len(SubmittedTo.questions) :
           SubmittedTo.questions[k].id = input.items[FirstRepeat].questionId

\* C15 as stated: whenever two entries carry the same questionId the
\* submission fails with a validation error naming that question id.
C15_DuplicateNamed ==
    (SubmitCalled /\ input.isArray /\ Repeats # {}) =>
        /\ Refused
        /\ last.error.msg = "Duplicate answer for question"
        /\ \E p \in Repeats : last.error.at = input.items[p[1]].questionId

\* C15 as the code has it: whenever two entries carry the same questionId the
\* submission fails with a validation error, so an accepted payload answers
\* each question at most once; the error names the repeated question id when
\* no earlier check fails.
C15_DuplicateRefused ==
    SubmitCalled =>
        /\ (input.isArray /\ Repeats # {}) => Refused
        /\ (input.isArray /\ RepeatFailsFirst) =>
               last.error = ErrorAt("Duplicate answer for question",
                                    input.items[FirstRepeat].questionId)
        /\ last.ok =>
               \A i, j \in 1..Len(input.items) :
                   input.items[i].questionId = input.items[j].questionId => i = j

C15_Witness ==
    /\ SubmitCalled
    /\ Len(SubmittedTo.questions) = 2
    /\ Len(input.items) = 2
    /\ SameQuestion(1, 2)
    /\ Len(input.items[1].selectedOptionIds.items) = 1
    /\ last.error = ErrorAt("Duplicate answer for question", input.items[1].questionId)

\* the question of the quiz that entry i names (NoQuestion when it names none)
OwnQuestion(i) == findQuestionById(SubmittedTo, input.items[i].questionId)

\* the positions <<i, k>> of the selected ids that are no option of the
\* question their entry names
ForeignSelections ==
    {p \in UNION {{i} \X (1..Len(input.items[i].selectedOptionIds.items)) :
                     i \in 1..Len(input.items)} :
        /\ input.items[p[1]].isObject
        /\ OwnQuestion(p[1]) # NoQuestion
        /\ input.items[p[1]].selectedOptionIds.items[p[2]]
               \notin OptionIds(OwnQuestion(p[1]))}

\* the first of them in payload order
FirstForeign ==
    CHOOSE p \in ForeignSelections :
        \A r \in ForeignSelections : p[1] < r[1] \/ (p[1] = r[1] /\ p[2] <= r[2])

\* the payload passes every structural check
WellFormed ==
    /\ input.isArray
    /\ Len(input.items) \in 1..Len(SubmittedTo.questions)
    /\ \A i \in 1..Len(input.items) : ~BadEntry(i)
    /\ Repeats = {}

\* C16 as stated: whenever a selected option id of an entry is no option of
\* that entry's own question, the submission fails with a validation error
\* identifying the option id and the question.
C16_ForeignOptionNamed ==
    (SubmitCalled /\ input.isArray /\ ForeignSelections # {}) =>
        /\ Refused
        /\ last.error.msg = "Invalid option ID"
        /\ \E p \in ForeignSelections :
               /\ last.error.at = input.items[p[1]].selectedOptionIds.items[p[2]]
               /\ last.error.on = input.items[p[1]].questionId

\* C16 as the code has it: whenever a selected option id of an entry is no
\* option of that entry's own question (also when it is an option of another
\* question of the quiz) the submission fails with a validation error and the
\* entry is not scored; in a payload that passes the structural checks the
\* error identifies the first such option id and its question.
C16_ForeignOptionRefused ==
    (SubmitCalled /\ input.isArray /\ ForeignSelections # {}) =>
        /\ Refused
        /\ WellFormed =>
               last.error =
                   ErrorOn("Invalid option ID",
                           input.items[FirstForeign[1]].selectedOptionIds.items[FirstForeign[2]],
                           input.items[FirstForeign[1]].questionId)

C16_Witness ==
    /\ SubmitCalled
    /\ WellFormed
    /\ Len(SubmittedTo.questions) = 2
    /\ Len(input.items) = 1
    /\ Len(input.items[1].selectedOptionIds.items) = 2
    /\ input.items[1].selectedOptionIds.items[1] \in OptionIds(OwnQuestion(1))
    /\ \E q \in Range(SubmittedTo.questions) :
           /\ q.id # input.items[1].questionId
           /\ input.items[1].selectedOptionIds.items[2] \in OptionIds(q)
    /\ last.error.msg = "Invalid option ID"

\* C17: a submission that fails gives the caller the error and nothing else
\* (no partial score or results, also when entries before the failing one
\* were scored), and a submission, failed or not, leaves the repository -
\* every quiz, its questions, options and updatedAt - as it was.
C17_AllOrNothing ==
    [][last'.op = "submitQuizAnswers" =>
          /\ quizzes' = quizzes
          /\ ~last'.ok => last'.value = <<>>]_vars

C17_Witness ==
    /\ SubmitCalled
    /\ ~last.ok
    /\ WellFormed
    /\ Len(input.items) = 2
    /\ ForeignSelections # {}
    /\ FirstForeign[1] = 2
    /\ isAnswerCorrect(OwnQuestion(1), input.items[1].selectedOptionIds)

(***************************************************************************)
(* addQuestion leaves no partial state (claim C18)                         *)
(***************************************************************************)
\* C18: a rejected addQuestion (payload shape, an invalid option at any
\* index, the final type-rule validation) leaves the target quiz's question
\* list and updatedAt and every other quiz as they were; an accepted one
\* appends exactly one question at the end of the list and changes nothing
\* else but updatedAt.
C18_NoPartialState ==
    [][last'.op = "addQuestion" =>
          IF ~last'.ok THEN quizzes' = quizzes
          ELSE LET old == MapGet(quizzes, last'.arg)
                   new == MapGet(quizzes', last'.arg)
               IN /\ Len(quizzes') = Len(quizzes)
                  /\ \A i \in 1..Len(quizzes) :
                         quizzes[i].id # last'.arg => quizzes'[i] = quizzes[i]
                  /\ Len(new.questions) = Len(old.questions) + 1
                  /\ SubSeq(new.questions, 1, Len(old.questions)) = old.questions
                  /\ new.questions[Len(new.questions)].id = last'.value
                  /\ [new EXCEPT !.questions = old.questions,
                                 !.updatedAt = old.updatedAt] = old]_vars

C18_Witness ==
    /\ last.op = "addQuestion"
    /\ ~last.ok
    /\ input.type = "multiple_choice"
    /\ Len(input.options.items) = 3
    /\ last.error = Error("Multiple choice questions must have at least 2 correct answers")
    /\ Len(MapGet(quizzes, TargetQuiz).questions) = 2

(***************************************************************************)
(* isAnswerCorrect on degenerate input (claim C19)                         *)
(***************************************************************************)
\* the selection or the question is one of the degenerate cases: no array,
\* nothing but empty entries (an empty array included), an id that is no
\* option of the question, no correct option, or an unknown type
Degenerate ==
    \/ ~input.isArray
    \/ \A i \in 1..Len(input.items) : input.items[i] = 0
    \/ \E i \in 1..Len(input.items) : input.items[i] \notin OptionIds(question) \cup {0}
    \/ CorrectSet(question) = {}
    \/ question.type \notin QuestionTypes

\* C19: isAnswerCorrect raises nothing and leaves the question as it was, and
\* it returns false for a non-array input, an empty selection, a selection of
\* only empty entries, a selection with an id that is no option of the
\* question, a question with no correct option and a question of unknown type.
C19_DegenerateIsFalse ==
    [][last'.op = "isAnswerCorrect" =>
          /\ question' = question
          /\ last'.ok
          /\ last'.value \in BOOLEAN
          /\ Degenerate' => last'.value = FALSE]_vars

C19_Witness ==
    /\ last.op = "isAnswerCorrect"
    /\ question.type = "text"
    /\ input.isArray
    /\ \E i \in 1..Len(input.items) : input.items[i] \in CorrectSet(question)
    /\ \E i \in 1..Len(input.items) : input.items[i] = question.id
    /\ last.value = FALSE

(***************************************************************************)
(* createQuiz over titles around the limits: missing, null, not a string,  *)
(* empty, blank, and trimmed lengths 1, 2, 3, 200 and 201 with and without *)
(* surrounding blanks.                                                     *)
(***************************************************************************)
Null == [Undefined EXCEPT !.word = "null"]

TitleOf(core, pre, post) == Str("title", FALSE, pre, core, post)

TitleInputs ==
    {Undefined, Null, NotAString, QuizTitle,
     TitleOf(0, 0, 0), TitleOf(0, 3, 0),
     TitleOf(1, 0, 0), TitleOf(TitleMin - 1, 1, 1),
     TitleOf(TitleMin, 0, 0), TitleOf(TitleMin, 2, 1),
     TitleOf(TitleMax, 0, 0), TitleOf(TitleMax, 1, 1),
     TitleOf(TitleMax + 1, 0, 0)}

InitTitle ==
    /\ quizzes = <<>>
    /\ nextId = 1
    /\ now = 0
    /\ question = NoQuestion
    /\ input = NoQuestionData
    /\ last = NoCall

\* quizService.createQuiz(title), returning the stored quiz
TCreateQuiz(title) ==
    /\ IF createQuizError(title) # NoError
           THEN /\ last' = Call("createQuiz", title, createQuizError(title), <<>>)
                /\ UNCHANGED <<quizzes, nextId>>
           ELSE /\ Len(quizzes) < MaxTitled
                /\ quizzes' = createQuiz(quizzes, title, nextId, now)
                /\ nextId' = nextId + 1
                /\ last' = Call("createQuiz", title, NoError,
                                NewQuiz(trim(title), nextId, now))
    /\ UNCHANGED <<now, question, input>>

NextTitle == \E title \in TitleInputs : TCreateQuiz(title)

TitleSpec == InitTitle /\ [][NextTitle]_vars

(***************************************************************************)
(* Title validation of createQuiz (claim C20)                              *)
(***************************************************************************)
\* C20: createQuiz accepts a title exactly when it is a string whose trimmed
\* length is between 3 and 200; it then stores exactly one new quiz with a
\* fresh id, the trimmed title and no questions, and returns it.  Any other
\* title (missing, null, no string, blank, shorter than 3 or longer than 200
\* after trimming) raises a validation error and leaves the repository as it
\* was.
C20_TitleAcceptance ==
    [][last'.op = "createQuiz" =>
          LET title == last'.arg
          IN IF title.isString /\ title.core >= TitleMin /\ title.core <= TitleMax
                 THEN /\ last'.ok
                      /\ Len(quizzes') = Len(quizzes) + 1
                      /\ SubSeq(quizzes', 1, Len(quizzes)) = quizzes
                      /\ \A i \in 1..Len(quizzes) : quizzes[i].id # last'.value.id
                      /\ quizzes'[Len(quizzes')] = last'.value
                      /\ last'.value.title = Str(title.word, title.upper, 0, title.core, 0)
                      /\ last'.value.questions = <<>>
                 ELSE /\ IsValidationError(last'.error)
                      /\ quizzes' = quizzes]_vars

C20_Witness ==
    /\ last.op = "createQuiz"
    /\ last.ok
    /\ last.arg = TitleOf(TitleMax, 1, 1)
    /\ Len(quizzes) = 2
    /\ quizzes[2].title = TitleOf(TitleMax, 0, 0)

(***************************************************************************)
(* Titles of the stored quizzes (claim C21)                                *)
(***************************************************************************)
\* C21: after any sequence of createQuiz, updateQuizTitle, addQuestion,
\* deleteQuiz and clearAll calls every quiz held in the repository has a title
\* that is trimmed and between 3 and 200 characters long.
C21_TitlesWithinLimits ==
    \A i \in 1..Len(quizzes) :
        /\ quizzes[i].title.isString
        /\ quizzes[i].title.pre = 0
        /\ quizzes[i].title.post = 0
        /\ length(quizzes[i].title) >= TitleMin
        /\ length(quizzes[i].title) <= TitleMax

(***************************************************************************)
(* The remaining repository operations: getAllQuizzes, getQuizCount and    *)
(* getQuizStats.                                                           *)
(***************************************************************************)
\* Quiz.getSummary
getSummary(quiz) ==
    [id |-> quiz.id, title |-> quiz.title, questionCount |-> Len(quiz.questions),
     createdAt |-> quiz.createdAt, updatedAt |-> quiz.updatedAt]

\* getAllQuizzes with the summaries in reverse Map order
getAllQuizzesReversed(qs) == [i \in 1..Len(qs) |-> getSummary(qs[Len(qs) + 1 - i])]

\* QuizService.getAllQuizzes
getAllQuizzes(qs) == [i \in 1..Len(qs) |-> getSummary(qs[i])]

\* QuizService.getQuizCount
getQuizCount(qs) == Len(qs)

\* the sum of the numbers, as the forEach of getQuizStats adds them up
RECURSIVE sumOver(_)
sumOver(numbers) ==
    IF numbers = <<>> THEN 0
    ELSE Head(numbers) + sumOver(Tail(numbers))

\* Math.round((total / count) * 10) / 10
roundedAverage(total, count) ==
    divide(MathRound(multiply(divide(total, count), 10)), 10)

\* getQuizStats counting the options that are not correct as the correct ones
getQuizStatsOfIncorrect(quiz) ==
    LET count == Len(quiz.questions)
        ofType(type) == Len(SelectSeq(quiz.questions, LAMBDA q : q.type = type))
        totalOptions == sumOver([i \in 1..count |-> Len(quiz.questions[i].options)])
        totalCorrectAnswers ==
            sumOver([i \in 1..count |->
                        Len(quiz.questions[i].options)
                          - Len(getCorrectOptionIds(quiz.questions[i]))])
    IN [totalQuestions |-> count,
        questionTypes |-> [single_choice |-> ofType("single_choice"),
                           multiple_choice |-> ofType("multiple_choice"),
                           text |-> ofType("text")],
        totalOptions |-> totalOptions,
        averageOptionsPerQuestion |->
            IF count > 0 THEN roundedAverage(totalOptions, count) ELSE divide(0, 1),
        totalCorrectAnswers |-> totalCorrectAnswers,
        averageCorrectAnswersPerQuestion |->
            IF count > 0 THEN roundedAverage(totalCorrectAnswers, count) ELSE divide(0, 1)]

\* QuizService.getQuizStats: the object returned for the quiz found
getQuizStats(quiz) ==
    LET count == Len(quiz.questions)
        ofType(type) == Len(SelectSeq(quiz.questions, LAMBDA q : q.type = type))
        totalOptions == sumOver([i \in 1..count |-> Len(quiz.questions[i].options)])
        totalCorrectAnswers ==
            sumOver([i \in 1..count |-> Len(getCorrectOptionIds(quiz.questions[i]))])
    IN [totalQuestions |-> count,
        questionTypes |-> [single_choice |-> ofType("single_choice"),
                           multiple_choice |-> ofType("multiple_choice"),
                           text |-> ofType("text")],
        totalOptions |-> totalOptions,
        averageOptionsPerQuestion |->
            IF count > 0 THEN roundedAverage(totalOptions, count) ELSE divide(0, 1),
        totalCorrectAnswers |-> totalCorrectAnswers,
        averageCorrectAnswersPerQuestion |->
            IF count > 0 THEN roundedAverage(totalCorrectAnswers, count) ELSE divide(0, 1)]

(***************************************************************************)
(* The repository with every quiz-scoped operation: quizzes are created,   *)
(* given questions, renamed, read, submitted to, deleted and cleared.  A   *)
(* caller passes any id handed out so far (of a quiz held or deleted, of a *)
(* question, of an option), the next id (never handed out), a falsy value  *)
(* or a value that is no string.                                           *)
(***************************************************************************)
MaxHeld == 2        \* quizzes held at a time
MaxRepoIds == 5     \* ids handed out to quizzes, questions and options

RepoPayloads ==
    {QuestionData(QuestionText, "single_choice", <<"false", "true">>),
     QuestionData(QuestionText, "text", <<"true">>),
     NoQuestionData}

RepoTitles == {TitleOf(TitleMin, 1, 0), Undefined, TitleOf(TitleMax + 1, 0, 0)}

\* answers payloads: no array, an empty array, and one entry selecting the
\* first option of a question held somewhere in the repository
RepoAnswers ==
    {NotAnArray, NoAnswers}
        \cup {[isArray |-> TRUE,
               items |-> <<[isObject |-> TRUE, questionId |-> AllQuestions[i].id,
                            selectedOptionIds |->
                                [isArray |-> TRUE,
                                 items |-> <<AllQuestions[i].options[1].id>>]]>>] :
                 i \in 1..Len(AllQuestions)}

RepoIds == (1..nextId) \cup {0, -1}

\* quizService.createQuiz(title)
RepoCreateQuiz(title) ==
    /\ Len(quizzes) < MaxHeld
    /\ nextId <= MaxRepoIds
    /\ quizzes' = createQuiz(quizzes, title, nextId, now)
    /\ nextId' = nextId + 1
    /\ last' = Call("createQuiz", 0, NoError, nextId)
    /\ UNCHANGED <<now, question, input>>

\* quizService.addQuestion(quizId, questionData)
RepoAddQuestion(quizId, data) ==
    /\ IF addQuestionError(quizzes, quizId, data) # NoError
           THEN /\ last' = Call("addQuestion", quizId,
                                addQuestionError(quizzes, quizId, data), <<>>)
                /\ UNCHANGED <<quizzes, nextId>>
           ELSE /\ nextId + idsOf(data) <= MaxRepoIds + 1
                /\ quizzes' = addQuestion(quizzes, quizId, data, nextId, now)
                /\ nextId' = nextId + idsOf(data)
                /\ last' = Call("addQuestion", quizId, NoError, nextId)
    /\ UNCHANGED <<now, question, input>>

\* quizService.getQuiz(quizId)
RepoGetQuiz(quizId) ==
    /\ IF getQuizError(quizzes, quizId) # NoError
           THEN last' = Call("getQuiz", quizId, getQuizError(quizzes, quizId), <<>>)
           ELSE last' = Call("getQuiz", quizId, NoError, MapGet(quizzes, quizId))
    /\ UNCHANGED <<quizzes, nextId, now, question, input>>

\* quizService.getAllQuizzes()
RepoGetAllQuizzes ==
    /\ last' = Call("getAllQuizzes", 0, NoError, getAllQuizzes(quizzes))
    /\ UNCHANGED <<quizzes, nextId, now, question, input>>

\* quizService.getQuizStats(quizId)
RepoGetQuizStats(quizId) ==
    /\ IF getQuizError(quizzes, quizId) # NoError
           THEN last' = Call("getQuizStats", quizId, getQuizError(quizzes, quizId), <<>>)
           ELSE last' = Call("getQuizStats", quizId, NoError,
                             getQuizStats(MapGet(quizzes, quizId)))
    /\ UNCHANGED <<quizzes, nextId, now, question, input>>

\* quizService.submitQuizAnswers(quizId, answers)
RepoSubmitQuizAnswers(quizId, answers) ==
    /\ IF submitQuizAnswersError(quizzes, quizId, answers) # NoError
           THEN last' = Call("submitQuizAnswers", quizId,
                             submitQuizAnswersError(quizzes, quizId, answers), <<>>)
           ELSE last' = Call("submitQuizAnswers", quizId, NoError,
                             submitQuizAnswers(quizzes, quizId, answers, now))
    /\ UNCHANGED <<quizzes, nextId, now, question, input>>

NextRepo ==
    \/ RepoCreateQuiz(QuizTitle)
    \/ \E quizId \in RepoIds, data \in RepoPayloads : RepoAddQuestion(quizId, data)
    \/ \E quizId \in RepoIds, newTitle \in RepoTitles : UpdateQuizTitle(quizId, newTitle)
    \/ \E quizId \in RepoIds : DeleteQuiz(quizId)
    \/ ClearAll
    \/ \E quizId \in RepoIds : RepoGetQuiz(quizId)
    \/ RepoGetAllQuizzes
    \/ \E quizId \in RepoIds : RGetQuizQuestions(quizId)
    \/ \E quizId \in RepoIds : RepoGetQuizStats(quizId)
    \/ \E quizId \in RepoIds, answers \in RepoAnswers : RepoSubmitQuizAnswers(quizId, answers)

RepoSpec == Init /\ [][NextRepo]_vars

(***************************************************************************)
(* Lookup, deletion, listing and unknown ids (claims C22, C23, C24, C29)   *)
(***************************************************************************)
\* C22: getQuiz fails with a validation error, never with not-found, for a
\* missing or non-string id; it fails with 'Quiz not found' for a string id
\* that is no key of the repository; for a present id it returns the stored
\* quiz; and it changes nothing.
C22_GetQuizFailureKinds ==
    [][last'.op = "getQuiz" =>
          /\ quizzes' = quizzes
          /\ IF last'.arg <= 0
                 THEN ~last'.ok /\ IsValidationError(last'.error) /\ last'.value = <<>>
             ELSE IF \A i \in 1..Len(quizzes) : quizzes[i].id # last'.arg
                 THEN last'.error = Error("Quiz not found") /\ last'.value = <<>>
             ELSE /\ last'.ok
                  /\ \E i \in 1..Len(quizzes) :
                         quizzes[i].id = last'.arg /\ last'.value = quizzes[i]]_vars

C22_Witness ==
    /\ last.op = "getQuiz"
    /\ last.arg = 0
    /\ IsValidationError(last.error)
    /\ Len(quizzes) = 2

\* the quiz-scoped operations
ScopedOps ==
    {"getQuiz", "addQuestion", "getQuizQuestions", "submitQuizAnswers", "getQuizStats",
     "deleteQuiz", "updateQuizTitle"}

Deleted(id) == last.op = "deleteQuiz" /\ last.ok /\ last.arg = id

\* id is no key of the repository and the call just made on it, if any,
\* failed with not-found (the deleting call itself aside)
GoneFor(id) ==
    /\ \A i \in 1..Len(quizzes) : quizzes[i].id # id
    /\ (last.op \in ScopedOps /\ last.arg = id /\ ~Deleted(id))
           => ~last.ok /\ IsNotFound(last.error)

\* C23: deleteQuiz on a present id removes exactly that quiz, returns true and
\* leaves every other quiz as it was, the count one lower; from then on
\* getQuiz, addQuestion, getQuizQuestions, submitQuizAnswers, getQuizStats and
\* another deleteQuiz on that id fail with not-found.  deleteQuiz on an
\* absent id fails with not-found and changes nothing.
C23_DeleteRemoves ==
    /\ [][last'.op = "deleteQuiz" =>
             IF \E i \in 1..Len(quizzes) : quizzes[i].id = last'.arg
                 THEN /\ last'.ok
                      /\ last'.value = TRUE
                      /\ getQuizCount(quizzes') = getQuizCount(quizzes) - 1
                      /\ \A i \in 1..Len(quizzes) :
                             IF quizzes[i].id = last'.arg
                                 THEN \A j \in 1..Len(quizzes') : quizzes'[j].id # last'.arg
                                 ELSE \E j \in 1..Len(quizzes') : quizzes'[j] = quizzes[i]
                 ELSE /\ ~last'.ok
                      /\ last'.arg > 0 => IsNotFound(last'.error)
                      /\ quizzes' = quizzes]_vars
    /\ \A id \in 1..MaxRepoIds : [](Deleted(id) => []GoneFor(id))

C23_Witness ==
    /\ last.op = "deleteQuiz"
    /\ last.ok
    /\ Len(quizzes) = 1
    /\ Len(quizzes[1].questions) = 1
    /\ quizzes[1].id > last.arg

\* C24: getAllQuizzes returns one summary for each quiz created and not since
\* deleted, as many as getQuizCount says, in the order of creation, each with
\* the quiz's current number of questions; with no quizzes the list is empty.
C24_ListMatchesRepository ==
    last.op = "getAllQuizzes" =>
        /\ Len(last.value) = getQuizCount(quizzes)
        /\ \A i \in 1..Len(last.value) :
               /\ last.value[i].id = quizzes[i].id
               /\ last.value[i].title = quizzes[i].title
               /\ last.value[i].questionCount = Len(quizzes[i].questions)
        /\ \A i, j \in 1..Len(last.value) : i < j => last.value[i].id < last.value[j].id
        /\ quizzes = <<>> => last.value = <<>>

C24_Witness ==
    /\ last.op = "getAllQuizzes"
    /\ Len(last.value) = 2
    /\ last.value[1].id > 1
    /\ last.value[1].questionCount = 1
    /\ last.value[2].questionCount = 0

\* C29: addQuestion, getQuizQuestions, submitQuizAnswers, getQuizStats,
\* deleteQuiz and updateQuizTitle called with a string id that is no key of
\* the repository fail with 'Quiz not found', whatever the question payload,
\* the answers payload or the new title, and leave the repository unchanged.
C29_UnknownIdNotFound ==
    [][(/\ last'.op \in ScopedOps \ {"getQuiz"}
        /\ last'.arg > 0
        /\ \A i \in 1..Len(quizzes) : quizzes[i].id # last'.arg)
          => /\ last'.error = Error("Quiz not found")
             /\ last'.value = <<>>
             /\ quizzes' = quizzes]_vars

C29_Witness ==
    /\ last.op = "addQuestion"
    /\ last.arg > 0
    /\ IsNotFound(last.error)
    /\ Len(quizzes) = 2
    /\ Len(quizzes[1].questions) = 1

(***************************************************************************)
(* Reading the questions of a quiz (claim C25)                             *)
(***************************************************************************)
\* C25: getQuizQuestions on a quiz held with no questions fails with 'Quiz
\* has no questions yet', an error other than not-found, and returns no list;
\* on a quiz of n >= 1 questions it returns n projected questions in the
\* order they were added.
C25_QuestionsOrEmptyError ==
    (last.op = "getQuizQuestions" /\ \E i \in 1..Len(quizzes) : quizzes[i].id = last.arg) =>
        LET held == MapGet(quizzes, last.arg).questions
        IN IF Len(held) = 0
               THEN /\ ~last.ok
                    /\ last.error = Error("Quiz has no questions yet")
                    /\ ~IsNotFound(last.error)
                    /\ last.value = <<>>
               ELSE /\ last.ok
                    /\ Len(last.value) = Len(held)
                    /\ \A i \in 1..Len(held) :
                           /\ last.value[i].id = held[i].id
                           /\ last.value[i].text = held[i].text
                           /\ last.value[i].type = held[i].type
                           /\ Len(last.value[i].options) = Len(held[i].options)
                           /\ \A k \in 1..Len(held[i].options) :
                                  last.value[i].options[k].id = held[i].options[k].id
                    /\ \A i, j \in 1..Len(held) : i < j => last.value[i].id < last.value[j].id

C25_Witness ==
    /\ last.op = "getQuizQuestions"
    /\ last.ok
    /\ last.arg = TargetQuiz
    /\ Len(last.value) = 2
    /\ last.value[1].type # last.value[2].type
    /\ Len(last.value[1].options) # Len(last.value[2].options)

(***************************************************************************)
(* Timestamps.  The clock is read by new Date() and never runs backwards;  *)
(* any number of operations fit between two of its ticks.  One quiz is     *)
(* created, given questions through the service, renamed, read, and has    *)
(* questions removed through Quiz.removeQuestion.                          *)
(***************************************************************************)
MaxClock == 2       \* ticks of the clock

\* Quiz.removeQuestion: the quiz afterwards
removeQuestion(quiz, questionId, time) ==
    IF \E index \in 1..Len(quiz.questions) : quiz.questions[index].id = questionId
        THEN [quiz EXCEPT !.questions = SelectSeq(@, LAMBDA q : q.id # questionId),
                          !.updatedAt = time]
        ELSE quiz

ClockPayloads ==
    {QuestionData(QuestionText, "text", <<"true">>),
     QuestionData(QuestionText, "single_choice", <<"true", "false">>),
     NoQuestionData}

ClockTitles == {TitleOf(TitleMin, 0, 0), TitleOf(TitleMax + 1, 0, 0)}

\* a millisecond passes
KTick ==
    /\ now < MaxClock
    /\ now' = now + 1
    /\ last' = NoCall
    /\ UNCHANGED <<quizzes, nextId, question, input>>

\* quizService.createQuiz(title): the constructor reads the clock twice
KCreateQuiz(later) ==
    /\ quizzes = <<>>
    /\ nextId = 1
    /\ later <= MaxClock
    /\ quizzes' = <<[NewQuiz(QuizTitle, nextId, now) EXCEPT !.updatedAt = later]>>
    /\ now' = later
    /\ nextId' = nextId + 1
    /\ last' = Call("createQuiz", 0, NoError, nextId)
    /\ UNCHANGED <<question, input>>

\* quizService.addQuestion(quizId, questionData)
KAddQuestion(quizId, data) ==
    /\ IF addQuestionError(quizzes, quizId, data) # NoError
           THEN /\ last' = Call("addQuestion", quizId,
                                addQuestionError(quizzes, quizId, data), <<>>)
                /\ UNCHANGED <<quizzes, nextId>>
           ELSE /\ Len(MapGet(quizzes, quizId).questions) < MaxQuestions
                /\ nextId + idsOf(data) <= MaxIds + 1
                /\ quizzes' = addQuestion(quizzes, quizId, data, nextId, now)
                /\ nextId' = nextId + idsOf(data)
                /\ last' = Call("addQuestion", quizId, NoError, nextId)
    /\ UNCHANGED <<now, question, input>>

\* quiz.removeQuestion(questionId) on the quiz held
KRemoveQuestion(questionId) ==
    /\ quizzes # <<>>
    /\ quizzes' = <<removeQuestion(quizzes[1], questionId, now)>>
    /\ last' = Call("removeQuestion", questionId, NoError,
                    \E index \in 1..Len(quizzes[1].questions) :
                        quizzes[1].questions[index].id = questionId)
    /\ UNCHANGED <<nextId, now, question, input>>

NextClock ==
    \/ KTick
    \/ \E later \in {now, now + 1} : KCreateQuiz(later)
    \/ \E quizId \in {1, nextId}, data \in ClockPayloads : KAddQuestion(quizId, data)
    \/ \E questionId \in 1..nextId : KRemoveQuestion(questionId)
    \/ \E quizId \in {1, nextId}, newTitle \in ClockTitles : UpdateQuizTitle(quizId, newTitle)
    \/ \E quizId \in {1, nextId} : RGetQuizQuestions(quizId)

ClockSpec == Init /\ [][NextClock]_vars

(***************************************************************************)
(* updatedAt (claim C26)                                                   *)
(***************************************************************************)
\* the step just taken added a question, removed one or set the title
Modifies ==
    \/ last'.op \in {"addQuestion", "updateQuizTitle"} /\ last'.ok
    \/ last'.op = "removeQuestion" /\ last'.value = TRUE

\* C26: updatedAt of a quiz is later after every successful question add,
\* question remove and title update than it was before, never moves
\* backwards and is never earlier than createdAt; a failed or reading
\* operation (removeQuestion of an absent id included) leaves it unchanged.
C26_UpdatedAtAdvances ==
    [][(quizzes # <<>> /\ quizzes' # <<>>) =>
          /\ quizzes'[1].updatedAt >= quizzes[1].updatedAt
          /\ quizzes'[1].updatedAt >= quizzes'[1].createdAt
          /\ IF Modifies THEN quizzes'[1].updatedAt > quizzes[1].updatedAt
             ELSE quizzes'[1].updatedAt = quizzes[1].updatedAt]_vars

(***************************************************************************)
(* getQuizStats on quizzes built through addQuestion: the quiz next to     *)
(* OtherQuiz is given questions of every kind of ReadPayloads and the      *)
(* statistics of either quiz are asked for.                                *)
(***************************************************************************)
MaxCounted == 3     \* questions of the quiz whose statistics are read

\* quizService.addQuestion(TargetQuiz, questionData)
GAddQuestion(data) ==
    /\ Len(MapGet(quizzes, TargetQuiz).questions) < MaxCounted
    /\ IF addQuestionError(quizzes, TargetQuiz, data) # NoError
           THEN /\ last' = Call("addQuestion", TargetQuiz,
                                addQuestionError(quizzes, TargetQuiz, data), <<>>)
                /\ UNCHANGED <<quizzes, nextId>>
           ELSE /\ quizzes' = addQuestion(quizzes, TargetQuiz, data, nextId, now)
                /\ nextId' = nextId + idsOf(data)
                /\ last' = Call("addQuestion", TargetQuiz, NoError, nextId)
    /\ UNCHANGED <<now, question, input>>

NextQuizStats ==
    \/ \E data \in ReadPayloads : GAddQuestion(data)
    \/ \E quizId \in QuizIds \cup {0} : RepoGetQuizStats(quizId)

QuizStatsSpec == InitRead /\ [][NextQuizStats]_vars

(***************************************************************************)
(* Statistics of a quiz (claim C27)                                        *)
(***************************************************************************)
\* the options of the quiz, as pairs of question index and option index
OptionsOf(quiz) ==
    UNION {{i} \X (1..Len(quiz.questions[i].options)) : i \in 1..Len(quiz.questions)}

\* x / n rounded to one decimal place, halves upward, in tenths
RoundedTenths(x, n) == (20 * x + n) \div (2 * n)

\* the number with one decimal place that is tenths / 10
OneDecimal(tenths) == divide(tenths, 10)

\* C27: getQuizStats returns totalQuestions equal to the quiz's question count
\* and to the sum of the three per-type counts, totalOptions equal to the
\* number of options of all questions, totalCorrectAnswers equal to the number
\* of correct options (at least totalQuestions), and each average equal to the
\* total divided by totalQuestions rounded to one decimal place, 0 for a quiz
\* of no questions; the call changes nothing.
C27_QuizStats ==
    [][(last'.op = "getQuizStats" /\ last'.ok) =>
          LET quiz == MapGet(quizzes, last'.arg)
              stats == last'.value
              n == Len(quiz.questions)
              typed(t) == Cardinality({i \in 1..n : quiz.questions[i].type = t})
              options == Cardinality(OptionsOf(quiz))
              correct == Cardinality({p \in OptionsOf(quiz) :
                                         quiz.questions[p[1]].options[p[2]].isCorrect})
          IN /\ quizzes' = quizzes
             /\ stats.totalQuestions = n
             /\ stats.questionTypes.single_choice = typed("single_choice")
             /\ stats.questionTypes.multiple_choice = typed("multiple_choice")
             /\ stats.questionTypes.text = typed("text")
             /\ stats.totalQuestions = stats.questionTypes.single_choice
                                         + stats.questionTypes.multiple_choice
                                         + stats.questionTypes.text
             /\ stats.totalOptions = options
             /\ stats.totalCorrectAnswers = correct
             /\ stats.totalCorrectAnswers >= stats.totalQuestions
             /\ stats.averageOptionsPerQuestion =
                    OneDecimal(IF n = 0 THEN 0 ELSE RoundedTenths(options, n))
             /\ stats.averageCorrectAnswersPerQuestion =
                    OneDecimal(IF n = 0 THEN 0 ELSE RoundedTenths(correct, n))]_vars

C27_Witness ==
    /\ last.op = "getQuizStats"
    /\ last.ok
    /\ last.value.totalQuestions = 3
    /\ last.value.totalOptions = 8
    /\ last.value.totalCorrectAnswers = 4
    /\ last.value.questionTypes.multiple_choice = 1
    /\ last.value.averageOptionsPerQuestion = OneDecimal(27)
    /\ last.value.averageCorrectAnswersPerQuestion = OneDecimal(13)

(***************************************************************************)
(* Structure before option ids (claim C28)                                 *)
(***************************************************************************)
\* entry i names the question of an earlier entry
RepeatsEarlier(i) == \E j \in 1..(i - 1) : SameQuestion(j, i)

\* the entries with a structural violation
Violating == {i \in 1..Len(input.items) : BadEntry(i) \/ RepeatsEarlier(i)}

\* the first structural violation of entry i, in the order of the checks
StructuralError(i) ==
    LET answer == input.items[i]
    IN IF ~answer.isObject THEN ErrorAt("Answer must be an object", i)
       ELSE IF answer.questionId = 0 THEN ErrorAt("Answer is missing questionId", i)
       ELSE IF \A k \in 1..Len(SubmittedTo.questions) :
                   SubmittedTo.questions[k].id # answer.questionId
           THEN ErrorAt("Question not found in this quiz", answer.questionId)
       ELSE IF RepeatsEarlier(i)
           THEN ErrorAt("Duplicate answer for question", answer.questionId)
       ELSE IF ~answer.selectedOptionIds.isArray
           THEN ErrorAt("Answer must have selectedOptionIds as an array", i)
       ELSE ErrorAt("Answer must have at least one selected option", i)

FirstViolating == CHOOSE i \in Violating : \A j \in Violating : i <= j

\* C28 as stated: whenever some entry of the payload has a structural
\* violation, the error reported is the structural one of the lowest-index
\* violating entry, even when an earlier entry selects an option id that does
\* not exist on its question.
C28_StructuralReported ==
    (SubmitCalled /\ input.isArray /\ Violating # {})
        => last.error = StructuralError(FirstViolating)

\* C28, amended: the same for a payload of no more entries than the quiz has
\* questions.
C28_StructuralFirst ==
    (/\ SubmitCalled
     /\ input.isArray
     /\ Len(input.items) <= Len(SubmittedTo.questions)
     /\ Violating # {})
        => /\ ~last.ok
           /\ last.error = StructuralError(FirstViolating)
           /\ last.value = <<>>

C28_Witness ==
    /\ SubmitCalled
    /\ input.isArray
    /\ Len(input.items) = 2
    /\ Len(SubmittedTo.questions) = 2
    /\ Violating = {2}
    /\ ForeignSelections # {}
    /\ FirstForeign[1] = 1
    /\ last.error = ErrorAt("Answer must have at least one selected option", 2)

(***************************************************************************)
(* The take-quiz view of the frontend (App.js).  The answers state is an   *)
(* object keyed by question id, kept here as its Object.entries in key     *)
(* order, which is the payload submitQuiz sends.  The quiz shown has a     *)
(* single_choice question (id 2, options 3 and 4) and a multiple_choice    *)
(* question (id 5, options 6, 7 and 8).                                    *)
(***************************************************************************)
ShownQuiz == 1

Answered(prev, questionId) ==
    {i \in 1..Len(prev.items) : prev.items[i].questionId = questionId}

\* the updater handleAnswerChange passes to setAnswers
handleAnswerChange(prev, questionId, optionId, isMultiple) ==
    LET at == Answered(prev, questionId)
        current == IF at = {} THEN <<>>
                   ELSE prev.items[CHOOSE i \in at : TRUE].selectedOptionIds.items
        newAnswers == IF ~isMultiple THEN <<optionId>>
                      ELSE IF includes(current, optionId)
                          THEN SelectSeq(current, LAMBDA id : id # optionId)
                      ELSE Append(current, optionId)
        entry == [isObject |-> TRUE, questionId |-> questionId,
                  selectedOptionIds |-> [isArray |-> TRUE, items |-> newAnswers]]
    IN IF at = {} THEN [prev EXCEPT !.items = Append(@, entry)]
       ELSE [prev EXCEPT !.items[CHOOSE i \in at : TRUE] = entry]

InitFrontend ==
    /\ quizzes = addQuestions(createQuiz(<<>>, QuizTitle, ShownQuiz, 0), ShownQuiz,
                              <<QuestionData(QuestionText, "single_choice", <<"false", "true">>),
                                QuestionData(QuestionText, "multiple_choice",
                                             <<"true", "false", "true">>)>>,
                              ShownQuiz + 1)
    /\ nextId = ShownQuiz + 8
    /\ now = 0
    /\ question = NoQuestion
    /\ input = NoAnswers
    /\ last = NoCall

\* startQuiz(quiz): the answers are reset and the questions fetched
FStartQuiz ==
    /\ input' = NoAnswers
    /\ last' = Call("getQuizQuestions", ShownQuiz, NoError,
                    getQuizQuestions(quizzes, ShownQuiz))
    /\ UNCHANGED <<quizzes, nextId, now, question>>

\* onChange of the input of an option of a question shown
FHandleAnswerChange(q, optionId) ==
    /\ input' = handleAnswerChange(input, q.id, optionId, q.type = "multiple_choice")
    /\ last' = NoCall
    /\ UNCHANGED <<quizzes, nextId, now, question>>

\* submitQuiz, behind a button that is disabled while no key is in answers
FSubmitQuiz ==
    /\ Len(input.items) # 0
    /\ IF submitQuizAnswersError(quizzes, ShownQuiz, input) # NoError
           THEN last' = Call("submitQuizAnswers", ShownQuiz,
                             submitQuizAnswersError(quizzes, ShownQuiz, input), <<>>)
           ELSE last' = Call("submitQuizAnswers", ShownQuiz, NoError,
                             submitQuizAnswers(quizzes, ShownQuiz, input, now))
    /\ UNCHANGED <<quizzes, nextId, now, question, input>>

NextFrontend ==
    \/ FStartQuiz
    \/ \E q \in Range(getQuizQuestions(quizzes, ShownQuiz)) :
           \E k \in 1..Len(q.options) : FHandleAnswerChange(q, q.options[k].id)
    \/ FSubmitQuiz

FrontendSpec == InitFrontend /\ [][NextFrontend]_vars

(***************************************************************************)
(* Answers kept by the frontend (claim C30)                                *)
(***************************************************************************)
\* C30: after any sequence of handleAnswerChange calls every question id in
\* the answers state maps to a non-empty list of option ids, so no entry
\* submitQuiz sends breaks the rule that an answer has at least one selected
\* option, and the 'N of M answered' count, which also enables the submit
\* button, counts only questions that have a selection.
C30_AnswersNonEmpty ==
    /\ \A i \in 1..Len(input.items) : Len(input.items[i].selectedOptionIds.items) > 0
    /\ Len(input.items) =
           Cardinality({i \in 1..Len(input.items) :
                           Len(input.items[i].selectedOptionIds.items) > 0})
    /\ last.op = "submitQuizAnswers" =>
           last.error.msg # "Answer must have at least one selected option"

=============================================================================
